---- MODULE Spec2Model ----
(***************************************************************************)
(* A model of the SiteOrigin-Checker backend: the SSRF gate and the        *)
(* request handlers of backend/app.py and the scoring engine of            *)
(* backend/score_calculator.py.                                            *)
(*                                                                         *)
(* The specifications share the module's variables:                       *)
(*   Spec       the request handlers (POST /check, POST /batch-check, the  *)
(*              process_site_check task, safe_requests_head) and the cache *)
(*   SpecGate   is_url_allowed applied to URLs, allowlists and DNS answers *)
(*   SpecScore  the scoring functions applied to bounded inputs            *)
(*   SpecCache  checks of one URL while time passes, in both cache modes   *)
(*   SpecRace   two concurrent checks of one URL and a later reader         *)
(*   SpecSession  a sequence of calls on one calculator                     *)
(*   SpecPair   a scoring call and the same call with one signal raised     *)
(*   SpecProbe  the DNS and cipher probes applied to bounded worlds         *)
(*   SpecWhois  a sequence of lookups on one WhoisChecker                   *)
(*   SpecWhoisRace  two lookups at once on the shared WhoisChecker          *)
(*                                                                         *)
(* Numbers.  Python floats are modelled as exact fixed-point decimals with *)
(* three places: the integer n stands for n / 1000, so 80 is 80000, the    *)
(* weight 0.35 is 350 and the probe score 0.5 is 500.                      *)
(***************************************************************************)
EXTENDS Integers, Sequences, FiniteSets, TLC

VARIABLES
    allowlist,    \* DOMAIN_ALLOWLIST, the configured set of host strings
    cache,        \* the response cache: cache key -> stored entry
    req,          \* the request handled last: its events and its response
    gate,         \* SpecGate: the last evaluation of is_url_allowed
    call,         \* SpecScore: the last call of a scoring function
    inflight,     \* SpecRace: the requests in flight and their writes
    session,      \* SpecSession: one calculator and the calls made on it
    whois_checker \* SpecWhois, SpecWhoisRace: the shared WhoisChecker and its lookups

vars == <<allowlist, cache, req, gate, call, inflight, session, whois_checker>>

---------------------------------------------------------------------------
(* Bounds of the model *)

\* ages are drawn from -MaxAgeTenths..MaxAgeTenths tenths of a year
MaxAgeTenths == 60
\* weak_ciphers_found holds at most MaxWeak entries
MaxWeak == 4
\* a DNS answer holds at most MaxAddrs addresses
MaxAddrs == 2
\* a batch request lists at most MaxBatch URLs
MaxBatch == 2
\* a cache entry is followed until it is MaxDays days old
MaxDays == 8
\* a calculator is followed over at most MaxCalls calls
MaxCalls == 3
\* a DNS answer of the DNS probe holds at most MaxRecords records of a type
MaxRecords == 2
\* a TLS session reports at most MaxCiphers shared cipher suites
MaxCiphers == 3
\* a WhoisChecker is followed over at most MaxLookups lookups
MaxLookups == 2

---------------------------------------------------------------------------
(* Python values *)

\* the fixed-point denominator: n stands for n / FP
FP == 10 * 10 * 10

\* A Python value of one of the kinds the code distinguishes; "absent" marks
\* a key that a dict does not hold.
Absent == [k |-> "absent", b |-> FALSE, n |-> 0, s |-> "", l |-> <<>>]
PyNone == [k |-> "none", b |-> FALSE, n |-> 0, s |-> "", l |-> <<>>]
PyBool(x) == [k |-> "bool", b |-> x, n |-> 0, s |-> "", l |-> <<>>]
PyNum(x) == [k |-> "num", b |-> FALSE, n |-> x, s |-> "", l |-> <<>>]
PyStr(x) == [k |-> "str", b |-> FALSE, n |-> 0, s |-> x, l |-> <<>>]
PyList(x) == [k |-> "list", b |-> FALSE, n |-> 0, s |-> "", l |-> x]

\* Python truthiness: bool(v)
Truthy(v) ==
    CASE v.k = "bool" -> v.b
      [] v.k = "num" -> v.n # 0
      [] v.k = "str" -> v.s # ""
      [] v.k = "list" -> v.l # <<>>
      [] OTHER -> FALSE

\* dict.get(key, default): the default only when the key is absent
Get(v, default) == IF v.k = "absent" THEN default ELSE v

\* isinstance(x, (int, float)); a bool is an int in Python
IsNumeric(v) == v.k \in {"num", "bool"}
\* the number a numeric value stands for: True is 1 and False is 0
NumOf(v) == IF v.k = "bool" THEN (IF v.b THEN FP ELSE 0) ELSE v.n

\* a dict (or None in the place of one); f holds one value per key the code
\* reads, Absent for a key the dict does not hold
PyDict(fields) == [none |-> FALSE, f |-> fields]
\* "not d" for a dict or None: None and the empty dict are falsy
Falsy(d) == d.none \/ \A key \in DOMAIN d.f : d.f[key].k = "absent"

\* the outcome of a call: a returned value or a raised exception
Ret(v) == [st |-> "ok", v |-> v, exc |-> ""]
Raise(e) == [st |-> "raise", v |-> 0, exc |-> e]
NoCall == [st |-> "none", v |-> 0, exc |-> ""]

---------------------------------------------------------------------------
(* Fixed-point arithmetic *)

\* the integer or decimal n / d as a fixed-point number
Num(n) == n * FP
Dec(n, d) == (n * FP) \div d
\* a * b of two fixed-point numbers
Mul(a, b) == (a * b) \div FP
Min2(a, b) == IF a <= b THEN a ELSE b
Max2(a, b) == IF a >= b THEN a ELSE b

\* round(x, 1): to one decimal place, ties to the even digit
Round1(x) ==
    LET step == FP \div 10
        q == x \div step
        r == x % step
    IN  IF 2 * r < step THEN q * step
        ELSE IF 2 * r > step THEN (q + 1) * step
        ELSE IF q % 2 = 0 THEN q * step ELSE (q + 1) * step

---------------------------------------------------------------------------
(* score_calculator.py: the sub-scores *)

\* calculate_domain_age_score with the boundary 1 taken strictly (a slip of
\* >= into >)
calculate_domain_age_score_strict(age_years) ==
    IF age_years.k = "none" \/ age_years.n < 0 THEN Num(20)
    ELSE IF age_years.n >= Num(5) THEN Num(100)
    ELSE IF age_years.n >= Num(3) THEN Num(70)
    ELSE IF age_years.n > Num(1) THEN Num(50)
    ELSE Num(20)

\* calculate_domain_age_score with the scores of the two middle bands
\* exchanged
calculate_domain_age_score_swapped(age_years) ==
    IF age_years.k = "none" \/ age_years.n < 0 THEN Num(20)
    ELSE IF age_years.n >= Num(5) THEN Num(100)
    ELSE IF age_years.n >= Num(3) THEN Num(50)
    ELSE IF age_years.n >= Num(1) THEN Num(70)
    ELSE Num(20)

\* calculate_domain_age_score(age_years): age_years is None or a number
calculate_domain_age_score(age_years) ==
    IF age_years.k = "none" \/ age_years.n < 0 THEN Num(20)
    ELSE IF age_years.n >= Num(5) THEN Num(100)
    ELSE IF age_years.n >= Num(3) THEN Num(70)
    ELSE IF age_years.n >= Num(1) THEN Num(50)
    ELSE Num(20)

\* str.lower() on the cipher-strength strings of the model
Lower(s) ==
    CASE s = "WEAK" -> "weak"
      [] s = "Medium" -> "medium"
      [] s = "STRONG" -> "strong"
      [] OTHER -> s

\* calculate_ssl_score(ssl_data).  ssl_data.f holds the keys is_valid, valid,
\* cipher_strength, expiring_soon, days_until_expiry and issuer.
\* None.lower() raises AttributeError when cipher_strength holds None.
calculate_ssl_score(ssl_data) ==
    IF Falsy(ssl_data) THEN Ret(0)
    ELSE
    LET d == ssl_data.f
        is_valid == Get(d.is_valid, Get(d.valid, PyBool(FALSE)))
        strength == Get(d.cipher_strength, PyStr(""))
        cipher_strength == Lower(strength.s)
        base == IF cipher_strength \in {"weak", "medium"}
                THEN Num(70) ELSE Num(100)
        expiring_soon == Get(d.expiring_soon, PyBool(FALSE))
        days_until_expiry == Get(d.days_until_expiry, PyNone)
    IN  IF ~Truthy(is_valid) THEN Ret(0)
        ELSE IF strength.k # "str" THEN Raise("AttributeError")
        ELSE IF Truthy(expiring_soon) THEN Ret(Min2(base, Num(50)))
        ELSE IF days_until_expiry.k # "none"
                /\ days_until_expiry.n < Num(30)
             THEN Ret(Min2(base, Num(70)))
        ELSE Ret(base)

\* calculate_cipher_score without the cap on the total penalty
calculate_cipher_score_nocap(cipher_data) ==
    IF Falsy(cipher_data) THEN Ret(Num(50))
    ELSE
    LET d == cipher_data.f
        cipher_score == Get(d.cipher_score, PyNum(Dec(5, 10)))
        weak_ciphers == Get(d.weak_ciphers_found, PyList(<<>>))
        scaled == Mul(NumOf(cipher_score), Num(100))
        penalty == Len(weak_ciphers.l) * Num(10)
        score == IF Len(weak_ciphers.l) > 0 THEN scaled - penalty ELSE scaled
    IN  IF ~IsNumeric(cipher_score) THEN Raise("TypeError")
        ELSE IF weak_ciphers.k # "list" THEN Raise("TypeError")
        ELSE Ret(Max2(0, Min2(Num(100), score)))

\* calculate_cipher_score(cipher_data).  cipher_data.f holds the keys
\* cipher_score, cipher_strength and weak_ciphers_found.  None * 100 and
\* len(None) raise TypeError.
calculate_cipher_score(cipher_data) ==
    IF Falsy(cipher_data) THEN Ret(Num(50))
    ELSE
    LET d == cipher_data.f
        cipher_score == Get(d.cipher_score, PyNum(Dec(5, 10)))
        weak_ciphers == Get(d.weak_ciphers_found, PyList(<<>>))
        scaled == Mul(NumOf(cipher_score), Num(100))
        penalty == Min2(Num(30), Len(weak_ciphers.l) * Num(10))
        score == IF Len(weak_ciphers.l) > 0 THEN scaled - penalty ELSE scaled
    IN  IF ~IsNumeric(cipher_score) THEN Raise("TypeError")
        ELSE IF weak_ciphers.k # "list" THEN Raise("TypeError")
        ELSE Ret(Max2(0, Min2(Num(100), score)))

\* calculate_dns_score(dns_data).  dns_data.f holds the keys dns_score,
\* spf_record and dmarc_record of the dictionary dns_checker makes; the
\* scoring engine reads the first two.
calculate_dns_score(dns_data) ==
    IF Falsy(dns_data) THEN Ret(Num(50))
    ELSE
    LET dns_score == Get(dns_data.f.dns_score, PyNum(Dec(5, 10)))
        score == Mul(NumOf(dns_score), Num(100))
    IN  IF ~IsNumeric(dns_score) THEN Raise("TypeError")
        ELSE Ret(Max2(0, Min2(Num(100), score)))

\* the weighted sum without the final round(composite, 1)
calculate_weighted_composite_score_unrounded(domain_score, ssl_score, cipher_score, dns_score, domain_weight, ssl_weight, cipher_weight, dns_weight) ==
    Mul(domain_score, domain_weight) + Mul(ssl_score, ssl_weight)
    + Mul(cipher_score, cipher_weight) + Mul(dns_score, dns_weight)

\* calculate_weighted_composite_score(...)
calculate_weighted_composite_score(domain_score, ssl_score, cipher_score, dns_score, domain_weight, ssl_weight, cipher_weight, dns_weight) ==
    Round1(Mul(domain_score, domain_weight) + Mul(ssl_score, ssl_weight)
           + Mul(cipher_score, cipher_weight) + Mul(dns_score, dns_weight))

---------------------------------------------------------------------------
(* score_calculator.py: ScoreCalculator *)

\* what a scoring call gives back: a structured result (shape "dict"), a bare
\* number (shape "num", in composite_score) or a raised exception
Structured(composite, domain_score, ssl_score, cipher_score, dns_score, trust_level, recommendations) ==
    [st |-> "ok", shape |-> "dict", composite_score |-> composite,
     domain_score |-> domain_score, ssl_score |-> ssl_score,
     cipher_score |-> cipher_score, dns_score |-> dns_score,
     trust_level |-> trust_level, recommendations |-> recommendations,
     exc |-> ""]
BareNumber(x) ==
    [st |-> "ok", shape |-> "num", composite_score |-> x,
     domain_score |-> 0, ssl_score |-> 0, cipher_score |-> 0, dns_score |-> 0,
     trust_level |-> "", recommendations |-> <<>>, exc |-> ""]
\* {"composite_score": 0, "trust_level": "error", "details": str(e)}
ErrorResult(e) ==
    [st |-> "ok", shape |-> "dict", composite_score |-> 0,
     domain_score |-> 0, ssl_score |-> 0, cipher_score |-> 0, dns_score |-> 0,
     trust_level |-> "error", recommendations |-> <<>>, exc |-> e]
Raised(e) ==
    [st |-> "raise", shape |-> "", composite_score |-> 0,
     domain_score |-> 0, ssl_score |-> 0, cipher_score |-> 0, dns_score |-> 0,
     trust_level |-> "", recommendations |-> <<>>, exc |-> e]
NoResult ==
    [st |-> "none", shape |-> "", composite_score |-> 0,
     domain_score |-> 0, ssl_score |-> 0, cipher_score |-> 0, dns_score |-> 0,
     trust_level |-> "", recommendations |-> <<>>, exc |-> ""]

\* _get_trust_level with the upper threshold taken strictly
get_trust_level_strict(score) ==
    IF score > Num(80) THEN "high"
    ELSE IF score >= Num(60) THEN "medium"
    ELSE "low"

\* ScoreCalculator._get_trust_level(score)
get_trust_level(score) ==
    IF score >= Num(80) THEN "high"
    ELSE IF score >= Num(60) THEN "medium"
    ELSE "low"

\* ScoreCalculator._generate_recommendations(...)
generate_recommendations(score, domain_age, ssl_data, cipher_data, dns_data) ==
    LET overall ==
            IF score >= Num(80)
            THEN <<"This appears to be a trustworthy site">>
            ELSE IF score >= Num(60)
            THEN <<"Exercise normal caution when interacting">>
            ELSE <<"Exercise caution when providing sensitive information">>
        domain ==
            IF domain_age.k # "none" /\ domain_age.n < Num(1)
            THEN <<"Domain is relatively new - verify legitimacy">>
            ELSE <<>>
        ssl ==
            IF ~Truthy(Get(ssl_data.f.is_valid, PyNone))
               /\ ~Truthy(Get(ssl_data.f.valid, PyNone))
            THEN <<"SSL certificate is invalid - avoid entering sensitive data">>
            ELSE IF Truthy(Get(ssl_data.f.expiring_soon, PyNone))
            THEN <<"SSL certificate expiring soon">>
            ELSE <<>>
        cipher ==
            IF Falsy(cipher_data) THEN <<>>
            ELSE IF Get(cipher_data.f.cipher_strength, PyNone) = PyStr("weak")
            THEN <<"Weak encryption detected - site may be vulnerable">>
            ELSE IF Truthy(Get(cipher_data.f.weak_ciphers_found, PyNone))
            THEN <<"Site supports some weak cipher suites">>
            ELSE <<>>
        dnsLow ==
            IF NumOf(Get(dns_data.f.dns_score, PyNum(Num(1)))) < Dec(5, 10)
            THEN <<"DNS configuration incomplete - verify site authenticity">>
            ELSE <<>>
        dnsSpf ==
            IF ~Truthy(Get(dns_data.f.spf_record, PyNone))
            THEN <<"No SPF record - email security may be compromised">>
            ELSE <<>>
        dns == IF Falsy(dns_data) THEN <<>> ELSE dnsLow \o dnsSpf
    IN  overall \o domain \o ssl \o cipher \o dns

\* calculate_score with 0 in the place of the neutral 50.0 for data that is
\* not there
calculate_score_no_neutral(self, domain_data, ssl_data, cipher_data, dns_data) ==
    LET domain_age_years == Get(domain_data.f.domain_age_years, PyNone)
        domain_score == calculate_domain_age_score(domain_age_years)
        ssl == calculate_ssl_score(ssl_data)
        cipher == IF Falsy(cipher_data) THEN Ret(0)
                  ELSE calculate_cipher_score(cipher_data)
        dns == IF Falsy(dns_data) THEN Ret(0)
               ELSE calculate_dns_score(dns_data)
        composite == calculate_weighted_composite_score(
                         domain_score, ssl.v, cipher.v, dns.v,
                         self.domain, self.ssl, self.cipher, self.dns)
    IN  IF ssl.st = "raise" THEN Raised(ssl.exc)
        ELSE IF cipher.st = "raise" THEN Raised(cipher.exc)
        ELSE IF dns.st = "raise" THEN Raised(dns.exc)
        ELSE IF ssl_data.none THEN Raised("AttributeError")
        ELSE Structured(Round1(composite), Round1(domain_score),
                        Round1(ssl.v), Round1(cipher.v), Round1(dns.v),
                        get_trust_level(composite),
                        generate_recommendations(composite, domain_age_years,
                            ssl_data, cipher_data, dns_data))

\* ScoreCalculator.calculate_score(domain_data, ssl_data, cipher_data,
\* dns_data) of a calculator whose weights are self.  The method has no
\* try/except: an exception of a sub-score propagates to the caller.
calculate_score(self, domain_data, ssl_data, cipher_data, dns_data) ==
    LET domain_age_years == Get(domain_data.f.domain_age_years, PyNone)
        domain_score == calculate_domain_age_score(domain_age_years)
        ssl == calculate_ssl_score(ssl_data)
        cipher == IF Falsy(cipher_data) THEN Ret(Num(50))
                  ELSE calculate_cipher_score(cipher_data)
        dns == IF Falsy(dns_data) THEN Ret(Num(50))
               ELSE calculate_dns_score(dns_data)
        composite == calculate_weighted_composite_score(
                         domain_score, ssl.v, cipher.v, dns.v,
                         self.domain, self.ssl, self.cipher, self.dns)
    IN  IF ssl.st = "raise" THEN Raised(ssl.exc)
        ELSE IF cipher.st = "raise" THEN Raised(cipher.exc)
        ELSE IF dns.st = "raise" THEN Raised(dns.exc)
        ELSE IF ssl_data.none THEN Raised("AttributeError")
        ELSE Structured(Round1(composite), Round1(domain_score),
                        Round1(ssl.v), Round1(cipher.v), Round1(dns.v),
                        get_trust_level(composite),
                        generate_recommendations(composite, domain_age_years,
                            ssl_data, cipher_data, dns_data))

---------------------------------------------------------------------------
(* score_calculator.py: calculate_composite_score *)

\* the default weights of calculate_weighted_composite_score
DefaultWeights ==
    [domain |-> Dec(35, 100), ssl |-> Dec(25, 100),
     cipher |-> Dec(20, 100), dns |-> Dec(20, 100)]
\* the default weights of ScoreCalculator.__init__
TwoFactorWeights ==
    [domain |-> Dec(6, 10), ssl |-> Dec(4, 10), cipher |-> 0, dns |-> 0]

\* _is_numeric_nonbool(x)
is_numeric_nonbool(x) == x.k = "num"

\* legacy_weight without the upper bound 1 of a weight
legacy_weight_unbounded(arg, default) ==
    IF IsNumeric(arg) /\ 0 < NumOf(arg) THEN NumOf(arg) ELSE default

\* the legacy weight taken from the third or fourth argument: the argument
\* when it is a number in (0, 1], otherwise the default
legacy_weight(arg, default) ==
    IF IsNumeric(arg) /\ 0 < NumOf(arg) /\ NumOf(arg) <= Num(1)
    THEN NumOf(arg) ELSE default

\* the thresholding of calculate_composite_score
composite_trust_level(composite) ==
    IF composite >= Num(80) THEN "high"
    ELSE IF composite >= Num(60) THEN "medium"
    ELSE "low"

\* calculate_composite_score(domain_age_years, ssl_valid,
\* ssl_days_remaining, ssl_issuer, cipher_score, dns_score).  Every exception
\* raised inside is caught and turned into the error result.
calculate_composite_score(domain_age_years, ssl_valid, ssl_days_remaining, ssl_issuer, cipher_score, dns_score) ==
    IF is_numeric_nonbool(domain_age_years) /\ is_numeric_nonbool(ssl_valid)
    THEN
        LET domain_weight == legacy_weight(ssl_days_remaining, Dec(6, 10))
            ssl_weight == legacy_weight(ssl_issuer, Dec(4, 10))
        IN  BareNumber(Mul(domain_age_years.n, domain_weight)
                       + Mul(ssl_valid.n, ssl_weight))
    ELSE
    LET domain_score == calculate_domain_age_score(domain_age_years)
        ssl_data == PyDict(
            [is_valid |-> ssl_valid, valid |-> ssl_valid,
             cipher_strength |-> Absent,
             expiring_soon |->
                 IF ssl_days_remaining.k # "none"
                 THEN PyBool(NumOf(ssl_days_remaining) < Num(30))
                 ELSE PyBool(FALSE),
             days_until_expiry |-> ssl_days_remaining,
             issuer |-> ssl_issuer])
        ssl == calculate_ssl_score(ssl_data)
        cipher_score_val == Mul(NumOf(cipher_score), Num(100))
        dns_score_val == Mul(NumOf(dns_score), Num(100))
        composite == calculate_weighted_composite_score(
                         domain_score, ssl.v, cipher_score_val, dns_score_val,
                         DefaultWeights.domain, DefaultWeights.ssl,
                         DefaultWeights.cipher, DefaultWeights.dns)
    IN  IF ssl_days_remaining.k = "str" THEN ErrorResult("TypeError")
        ELSE IF ssl.st = "raise" THEN ErrorResult(ssl.exc)
        ELSE IF ~IsNumeric(cipher_score) \/ ~IsNumeric(dns_score)
        THEN ErrorResult("TypeError")
        ELSE IF is_numeric_nonbool(ssl_valid) THEN BareNumber(composite)
        ELSE Structured(composite, domain_score, ssl.v, cipher_score_val,
                        dns_score_val,
                        composite_trust_level(composite), <<>>)

---------------------------------------------------------------------------
(* app.py: URLs, hosts and addresses *)

\* A host, a netloc or a path is a sequence of tokens: a separator "." or "/"
\* or a run of other characters (an IPv4 literal is kept as one run).
\* A URL is its text together with what urllib.parse.urlparse makes of it:
\* parses is FALSE when urlparse raises ValueError; hostname is <<>> where
\* urlparse gives None; urlparse lower-cases the scheme and the hostname.
Url(text, parses, scheme, netloc, hostname, path) ==
    [text |-> text, parses |-> parses, scheme |-> scheme, netloc |-> netloc,
     hostname |-> hostname, path |-> path]

ExampleCom == <<"example", ".", "com">>
LoopbackHost == <<"127.0.0.1">>
MetadataHost == <<"169.254.169.254">>

UrlPublic == Url("https://example.com", TRUE, "https", ExampleCom, ExampleCom, <<>>)
UrlWww == Url("https://www.example.com", TRUE, "https", <<"www", ".">> \o ExampleCom, <<"www", ".">> \o ExampleCom, <<>>)
UrlUpperDot == Url("https://Example.COM./", TRUE, "https", <<"Example", ".", "COM", ".">>, ExampleCom \o <<".">>, <<"/">>)
UrlLoopback == Url("http://127.0.0.1/", TRUE, "http", LoopbackHost, LoopbackHost, <<"/">>)
UrlMetadata == Url("http://169.254.169.254/", TRUE, "http", MetadataHost, MetadataHost, <<"/">>)
UrlFtp == Url("ftp://example.com", TRUE, "ftp", ExampleCom, ExampleCom, <<>>)
UrlNoHost == Url("http:///path", TRUE, "http", <<>>, <<>>, <<"/", "path">>)
UrlBare == Url("example.com", TRUE, "", <<>>, <<>>, ExampleCom)
UrlMalformed == Url("http://[::1", FALSE, "", <<>>, <<>>, <<>>)
UrlEmpty == Url("", TRUE, "", <<>>, <<>>, <<>>)
\* a lone surrogate, which a JSON string can carry (the escape \ud800) and
\* which str.encode() refuses
LoneSurrogate == "\\ud800"
UrlSurrogate == Url("https://example.com/\\ud800", TRUE, "https", ExampleCom, ExampleCom, <<"/", LoneSurrogate>>)

\* whether url.encode() succeeds: UTF-8 has no encoding of a lone surrogate
utf8_encodes(url) ==
    /\ \A i \in DOMAIN url.netloc : url.netloc[i] # LoneSurrogate
    /\ \A i \in DOMAIN url.path : url.path[i] # LoneSurrogate

\* An address string with what ipaddress.ip_address makes of it: parses is
\* FALSE when ip_address raises, the other fields are the properties that
\* is_ip_private reads.
Addr(text, parses, is_private, is_loopback, is_link_local, is_reserved, is_multicast, is_unspecified) ==
    [text |-> text, parses |-> parses, is_private |-> is_private,
     is_loopback |-> is_loopback, is_link_local |-> is_link_local,
     is_reserved |-> is_reserved, is_multicast |-> is_multicast,
     is_unspecified |-> is_unspecified]

AddrPublic == Addr("93.184.216.34", TRUE, FALSE, FALSE, FALSE, FALSE, FALSE, FALSE)
AddrPublic2 == Addr("8.8.8.8", TRUE, FALSE, FALSE, FALSE, FALSE, FALSE, FALSE)
AddrPrivate == Addr("10.0.0.5", TRUE, TRUE, FALSE, FALSE, FALSE, FALSE, FALSE)
AddrLoopback == Addr("127.0.0.1", TRUE, TRUE, TRUE, FALSE, FALSE, FALSE, FALSE)
AddrLinkLocal == Addr("169.254.169.254", TRUE, TRUE, FALSE, TRUE, FALSE, FALSE, FALSE)
AddrReserved == Addr("240.0.0.1", TRUE, TRUE, FALSE, FALSE, TRUE, FALSE, FALSE)
AddrMulticast == Addr("224.0.0.1", TRUE, FALSE, FALSE, FALSE, FALSE, TRUE, FALSE)
AddrUnspecified == Addr("0.0.0.0", TRUE, TRUE, FALSE, FALSE, FALSE, FALSE, TRUE)
\* a scoped literal, which ip_address rejects on interpreters before 3.9
AddrMalformed == Addr("fe80::1%eth0", FALSE, FALSE, FALSE, FALSE, FALSE, FALSE, FALSE)

AddrPool ==
    {AddrPublic, AddrPublic2, AddrPrivate, AddrLoopback, AddrLinkLocal,
     AddrReserved, AddrMulticast, AddrUnspecified, AddrMalformed}

\* what socket.getaddrinfo does for a name: it raises, or it answers with
\* addresses, which resolve_hostname passes through a set: no address twice,
\* in any order
LookupFailed == [st |-> "raise", addrs |-> <<>>]
Resolved(addrs) == [st |-> "ok", addrs |-> addrs]
AddrLists ==
    UNION {{s \in [1..n -> AddrPool] :
               \A i, j \in 1..n : i # j => s[i] # s[j]} : n \in 1..MaxAddrs}
DnsOutcomes == {LookupFailed} \cup {Resolved(s) : s \in AddrLists}

\* socket.getaddrinfo(hostname, None) where the names of the world resolve as
\* dns says: an address literal resolves to itself
getaddrinfo(hostname, dns) ==
    IF \E a \in AddrPool : a.parses /\ hostname = <<a.text>>
    THEN Resolved(<<CHOOSE a \in AddrPool : hostname = <<a.text>>>>)
    ELSE dns

---------------------------------------------------------------------------
(* app.py: the SSRF gate *)

ALLOWED_SCHEMES == {"http", "https"}

\* is_ip_private(ip_str): an address that cannot be parsed counts as private
is_ip_private(ip) ==
    IF ~ip.parses THEN TRUE
    ELSE \/ ip.is_private
         \/ ip.is_loopback
         \/ ip.is_link_local
         \/ ip.is_reserved
         \/ ip.is_multicast
         \/ ip.is_unspecified

\* resolve_hostname(hostname): the empty list when getaddrinfo raises
resolve_hostname(hostname, dns) ==
    LET infos == getaddrinfo(hostname, dns)
    IN  IF infos.st = "raise" THEN <<>> ELSE infos.addrs

\* str.lower() on one token of a host
lower_token(t) ==
    CASE t = "Example" -> "example"
      [] t = "COM" -> "com"
      [] t = "WWW" -> "www"
      [] OTHER -> t

\* host.lower()
host_lower(host) == [i \in 1..Len(host) |-> lower_token(host[i])]

\* host.rstrip(".")
RECURSIVE rstrip_dot(_)
rstrip_dot(host) ==
    IF host # <<>> /\ host[Len(host)] = "."
    THEN rstrip_dot(SubSeq(host, 1, Len(host) - 1))
    ELSE host

\* what is_url_allowed returns, (allowed, reason): a reason with a detail is
\* the string reason:detail.  resolved tells whether resolve_hostname was
\* called.
GateResult(allowed, reason, detail, resolved) ==
    [allowed |-> allowed, reason |-> reason, detail |-> detail,
     resolved |-> resolved]

\* is_url_allowed with the hostname resolved before the allowlist is read
is_url_allowed_resolve_first(url, DOMAIN_ALLOWLIST, dns) ==
    IF ~url.parses THEN GateResult(FALSE, "invalid_url", "", FALSE)
    ELSE IF url.scheme \notin ALLOWED_SCHEMES
    THEN GateResult(FALSE, "bad_scheme", url.scheme, FALSE)
    ELSE IF url.hostname = <<>> THEN GateResult(FALSE, "no_host", "", FALSE)
    ELSE
    LET host == url.hostname
        normalized_host == rstrip_dot(host_lower(host))
        allowed_domains == {rstrip_dot(host_lower(d)) : d \in DOMAIN_ALLOWLIST}
        addrs == resolve_hostname(host, dns)
        bad == {i \in 1..Len(addrs) : is_ip_private(addrs[i])}
    IN  IF addrs = <<>>
        THEN GateResult(FALSE, "dns_resolution_failed", "", TRUE)
        ELSE IF DOMAIN_ALLOWLIST # {} /\ normalized_host \notin allowed_domains
        THEN GateResult(FALSE, "not_in_allowlist", "", TRUE)
        ELSE IF bad # {}
        THEN GateResult(FALSE, "resolved_to_private_ip",
                 addrs[CHOOSE i \in bad : \A j \in bad : i <= j].text, TRUE)
        ELSE GateResult(TRUE, "ok", "", TRUE)

\* is_url_allowed with only the first resolved address classified
is_url_allowed_first_address(url, DOMAIN_ALLOWLIST, dns) ==
    IF ~url.parses THEN GateResult(FALSE, "invalid_url", "", FALSE)
    ELSE IF url.scheme \notin ALLOWED_SCHEMES
    THEN GateResult(FALSE, "bad_scheme", url.scheme, FALSE)
    ELSE IF url.hostname = <<>> THEN GateResult(FALSE, "no_host", "", FALSE)
    ELSE
    LET host == url.hostname
        normalized_host == rstrip_dot(host_lower(host))
        allowed_domains == {rstrip_dot(host_lower(d)) : d \in DOMAIN_ALLOWLIST}
        addrs == resolve_hostname(host, dns)
    IN  IF DOMAIN_ALLOWLIST # {} /\ normalized_host \notin allowed_domains
        THEN GateResult(FALSE, "not_in_allowlist", "", FALSE)
        ELSE IF addrs = <<>>
        THEN GateResult(FALSE, "dns_resolution_failed", "", TRUE)
        ELSE IF is_ip_private(addrs[1])
        THEN GateResult(FALSE, "resolved_to_private_ip", addrs[1].text, TRUE)
        ELSE GateResult(TRUE, "ok", "", TRUE)

\* is_url_allowed(url) under the allowlist DOMAIN_ALLOWLIST, in a world whose
\* names resolve as dns says.  The loop over addrs returns at the first
\* address that is_ip_private reports.
is_url_allowed(url, DOMAIN_ALLOWLIST, dns) ==
    IF ~url.parses THEN GateResult(FALSE, "invalid_url", "", FALSE)
    ELSE IF url.scheme \notin ALLOWED_SCHEMES
    THEN GateResult(FALSE, "bad_scheme", url.scheme, FALSE)
    ELSE IF url.hostname = <<>> THEN GateResult(FALSE, "no_host", "", FALSE)
    ELSE
    LET host == url.hostname
        normalized_host == rstrip_dot(host_lower(host))
        allowed_domains == {rstrip_dot(host_lower(d)) : d \in DOMAIN_ALLOWLIST}
        addrs == resolve_hostname(host, dns)
        bad == {i \in 1..Len(addrs) : is_ip_private(addrs[i])}
    IN  IF DOMAIN_ALLOWLIST # {} /\ normalized_host \notin allowed_domains
        THEN GateResult(FALSE, "not_in_allowlist", "", FALSE)
        ELSE IF addrs = <<>>
        THEN GateResult(FALSE, "dns_resolution_failed", "", TRUE)
        ELSE IF bad # {}
        THEN GateResult(FALSE, "resolved_to_private_ip",
                 addrs[CHOOSE i \in bad : \A j \in bad : i <= j].text, TRUE)
        ELSE GateResult(TRUE, "ok", "", TRUE)

---------------------------------------------------------------------------
(* app.py: the probes and their safe wrappers *)

\* One step of a request that the claims speak of: an evaluation of
\* is_url_allowed with its outcome, a probe call, or an outbound connection.
\* url is the text of the URL the step is made for.
Event(ev, url, res) ==
    [ev |-> ev, url |-> url.text, allowed |-> res.allowed,
     reason |-> res.reason, detail |-> res.detail]
NoGate == GateResult(FALSE, "", "", FALSE)

\* what WhoisChecker.get_domain_age(domain) returns: None, or the dictionary
\* of a registration that was found
WhoisNone == [none |-> TRUE, domain_age_years |-> Absent, creation_date |-> Absent]
WhoisFound(age) == [none |-> FALSE, domain_age_years |-> PyNum(age), creation_date |-> PyStr("2020-01-01T00:00:00")]

\* what check_ssl_certificate(url) returns: it catches every exception and
\* returns its result dictionary, of which the wrapper reads four keys
CertValid(days) == [valid |-> TRUE, issuer |-> PyStr("Let's Encrypt"), expiry_date |-> PyStr("2027-01-01T00:00:00"), days_until_expiry |-> PyNum(days)]
CertInvalid == [valid |-> FALSE, issuer |-> PyNone, expiry_date |-> PyNone, days_until_expiry |-> PyNone]

\* what a request meets outside the program: how the names resolve, what the
\* registry lookup gives, what the certificate check gives and how the
\* HTTP requests end
Env(dns, whois, cert, http) ==
    [dns |-> dns, whois |-> whois, cert |-> cert, http |-> http]

\* domain = parsed_url.netloc or parsed_url.path, less a leading "www."
domain_of(url) ==
    LET domain == IF url.netloc # <<>> THEN url.netloc ELSE url.path
    IN  IF Len(domain) >= 2 /\ domain[1] = "www" /\ domain[2] = "."
        THEN SubSeq(domain, 3, Len(domain))
        ELSE domain

\* safe_get_domain_age(domain), info being what get_domain_age returned
safe_get_domain_age(info) ==
    IF info.none
    THEN [creation_date |-> PyNone, domain_age_years |-> PyNum(0)]
    ELSE [creation_date |-> Get(info.creation_date, PyNone),
          domain_age_years |-> Get(info.domain_age_years, PyNum(0))]

\* the dictionary safe_check_ssl returns; note is the gate's reason and its
\* detail, <<>> where the key is absent
SslInfo(valid, issuer, expiry_date, days_until_expiry, note) ==
    [valid |-> valid, issuer |-> issuer, expiry_date |-> expiry_date,
     days_until_expiry |-> days_until_expiry, note |-> note]

\* safe_check_ssl that calls check_ssl_certificate without asking the gate
safe_check_ssl_ungated(url, DOMAIN_ALLOWLIST, env) ==
    [info |-> SslInfo(env.cert.valid, env.cert.issuer, env.cert.expiry_date,
                      env.cert.days_until_expiry, <<>>),
     events |-> <<Event("check_ssl_certificate", url, NoGate)>>]

\* safe_check_ssl(url): the gate, and the certificate check only when the
\* gate allowed the URL.  Gives the dictionary and the steps made.
\* check_ssl_certificate always returns its dictionary, so the wrapper's
\* branches for an empty result and for an exception are not taken.
safe_check_ssl(url, DOMAIN_ALLOWLIST, env) ==
    LET res == is_url_allowed(url, DOMAIN_ALLOWLIST, env.dns)
    IN  IF ~res.allowed
        THEN [info |-> SslInfo(FALSE, PyNone, PyNone, PyNum(0),
                               <<res.reason, res.detail>>),
              events |-> <<Event("is_url_allowed", url, res)>>]
        ELSE [info |-> SslInfo(env.cert.valid, env.cert.issuer,
                               env.cert.expiry_date,
                               env.cert.days_until_expiry, <<>>),
              events |-> <<Event("is_url_allowed", url, res),
                           Event("check_ssl_certificate", url, NoGate)>>]

\* safe_calculate_composite_score(domain_age_years=, ssl_valid=,
\* ssl_days_remaining=, ssl_issuer=): the four keywords are parameters of
\* calculate_composite_score, the probe scores keep their default 0.5
safe_calculate_composite_score(domain_age_years, ssl_valid, ssl_days_remaining, ssl_issuer) ==
    LET result == calculate_composite_score(
                      domain_age_years, ssl_valid, ssl_days_remaining,
                      ssl_issuer, PyNum(Dec(5, 10)), PyNum(Dec(5, 10)))
    IN  IF result.shape # "dict"
        THEN [composite_score |-> 0, trust_level |-> "unknown"]
        ELSE [composite_score |-> result.composite_score,
              trust_level |-> result.trust_level]

---------------------------------------------------------------------------
(* app.py: the cache and the request handlers *)

\* One result of a check as the handlers build it.  kind is "scored" for
\* the dictionary of a check that ran, "blocked" for the dictionary of a URL
\* the gate rejected and "none" for no dictionary.  full tells the
\* dictionary of POST /check, which has the certificate's details, from the
\* shorter one of POST /batch-check.
Result(kind, url, domain, domain_age_years, ssl_valid, ssl_days_remaining, score, trust_level, error, reason, detail, full) ==
    [kind |-> kind, url |-> url, domain |-> domain,
     domain_age_years |-> domain_age_years, ssl_valid |-> ssl_valid,
     ssl_days_remaining |-> ssl_days_remaining, score |-> score,
     trust_level |-> trust_level, error |-> error, reason |-> reason,
     detail |-> detail, full |-> full]
NoEntry == Result("none", "", <<>>, Absent, Absent, Absent, 0, "", "", "", "", FALSE)

\* the URLs requests are made with
RequestUrls == {UrlPublic, UrlLoopback, UrlMalformed, UrlEmpty, UrlSurrogate}

\* get_cache_key(url): "site_check:" and the SHA-256 digest of url.encode(),
\* which tells the URLs of the model apart as their texts do.  For a URL
\* that does not encode the call raises UnicodeEncodeError: the handlers
\* below ask utf8_encodes before they take the key.
get_cache_key(url) == url.text
CacheKeys == {get_cache_key(u) : u \in RequestUrls \cup {UrlWww}}

\* a day in seconds
Day == 24 * 60 * 60
\* ttl: int = 604800, the default of set_in_cache
DefaultTtl == 604800
\* set_in_cache(cache_key, result, ttl=86400) in batch_check_sites
BatchTtl == 86400

\* What the cache holds under one key: the value stored, the time to live
\* the store keeps for it (0: none kept) and age, the seconds since the value
\* was written.  The age is the world's, not the program's: the dictionary
\* of the in-memory mode keeps no time at all.
Slot(value, ttl, age) == [value |-> value, ttl |-> ttl, age |-> age]
EmptySlot == Slot(NoEntry, 0, 0)

\* the cache at start: CACHE_ENABLED is TRUE where Redis answered the ping
\* at import, FALSE where the dictionary {} took its place
EmptyCache == [enabled |-> FALSE, slots |-> [k \in CacheKeys |-> EmptySlot]]
EmptyRedis == [enabled |-> TRUE, slots |-> [k \in CacheKeys |-> EmptySlot]]

\* json.dumps(data) and json.loads(text): a response holds strings, numbers,
\* booleans and None only, which come back from JSON as they went in
json_dumps(data) == [json |-> data]
json_loads(text) == text.json

\* get_from_cache(key): None where nothing is stored.  Redis gives None for
\* a key whose time to live has run out; the dictionary gives what it holds.
get_from_cache(store, key) ==
    LET slot == store.slots[key]
    IN  IF slot.value = NoEntry THEN NoEntry
        ELSE IF store.enabled
        THEN (IF slot.age >= slot.ttl THEN NoEntry
              ELSE json_loads(slot.value))
        ELSE slot.value

\* set_in_cache(key, data, ttl): cache.setex(key, ttl, json.dumps(data))
\* with Redis, cache[key] = data without it
set_in_cache(store, key, data, ttl) ==
    IF store.enabled
    THEN [store EXCEPT !.slots[key] = Slot(json_dumps(data), ttl, 0)]
    ELSE [store EXCEPT !.slots[key] = Slot(data, 0, 0)]

\* what a handler gives: the status and the body of the response (results
\* and error), or the exception that leaves it, with the steps made and
\* the cache it leaves
Outcome(status, results, error, events, store) ==
    [status |-> status, results |-> results, error |-> error,
     events |-> events, store |-> store]

\* the one element of a singleton set.  A set {e : x \in {v}} computes v once
\* and binds x to its value, as an assignment to a local variable does.
Only(S) == CHOOSE x \in S : TRUE

\* check_site() from the scoring on, with the probes' dictionaries in hand
check_site_scored(url, store, domain_info, ssl) ==
    LET score_data == safe_calculate_composite_score(
                          domain_info.domain_age_years,
                          PyBool(ssl.info.valid),
                          ssl.info.days_until_expiry, ssl.info.issuer)
    IN  Only({Outcome(200, <<response_data>>, "",
                  <<Event("get_domain_age", url, NoGate)>> \o ssl.events,
                  set_in_cache(store, get_cache_key(url), response_data,
                               DefaultTtl)) :
              response_data \in
                  {Result("scored", url.text, domain_of(url),
                       domain_info.domain_age_years, PyBool(ssl.info.valid),
                       ssl.info.days_until_expiry, score_data.composite_score,
                       score_data.trust_level, "", "", "", TRUE)}})

\* a JSON body of POST /check: the object {"url": url} (UrlEmpty where the
\* key is missing or empty), null, or a number
CheckBody(url) == [json |-> "object", url |-> url]
NullBody == [json |-> "null", url |-> UrlEmpty, has_urls |-> FALSE, list |-> FALSE, urls |-> <<>>]
NumberBody == [json |-> "number", url |-> UrlEmpty, has_urls |-> FALSE, list |-> FALSE, urls |-> <<>>]

\* check_site(): POST /check with the body data.  data.get("url") stands
\* before the try: on a body that is not an object it raises AttributeError,
\* which leaves the handler (status 0).  Inside the try the domain-age lookup
\* comes first, then safe_check_ssl, which asks the gate.
check_site(data, DOMAIN_ALLOWLIST, store, env) ==
    LET url == data.url
    IN
    IF data.json # "object"
    THEN Outcome(0, <<>>, "AttributeError", <<>>, store)
    ELSE IF url.text = ""
    THEN Outcome(400, <<>>, "URL is required", <<>>, store)
    ELSE IF ~utf8_encodes(url)
    THEN Outcome(500, <<>>, "UnicodeEncodeError", <<>>, store)
    ELSE IF get_from_cache(store, get_cache_key(url)) # NoEntry
    THEN Outcome(200, <<get_from_cache(store, get_cache_key(url))>>, "",
                 <<>>, store)
    ELSE IF ~url.parses THEN Outcome(500, <<>>, "ValueError", <<>>, store)
    ELSE Only({check_site_scored(url, store, domain_info, ssl) :
                  domain_info \in {safe_get_domain_age(env.whois)},
                  ssl \in {safe_check_ssl(url, DOMAIN_ALLOWLIST, env)}})

\* data['urls'][:10]
BatchLimit == 10

\* the body of the loop of batch_check_sites from the scoring on, with the
\* probes' dictionaries in hand
batch_item_scored(url, acc, domain_info, ssl) ==
    LET score_data == safe_calculate_composite_score(
                          domain_info.domain_age_years,
                          PyBool(ssl.info.valid),
                          ssl.info.days_until_expiry, ssl.info.issuer)
    IN  Only({Outcome(200, Append(acc.results, result), "",
                  acc.events \o <<Event("get_domain_age", url, NoGate)>>
                             \o ssl.events,
                  set_in_cache(acc.store, get_cache_key(url), result,
                               BatchTtl)) :
              result \in
                  {Result("scored", url.text, domain_of(url),
                       domain_info.domain_age_years, PyBool(ssl.info.valid),
                       Absent, score_data.composite_score,
                       score_data.trust_level, "", "", "", FALSE)}})

\* the body of the loop of batch_check_sites past the gate, res being what
\* is_url_allowed returned and acc the outcome of the URLs before, with the
\* evaluation of the gate added to its steps.  An exception (get_cache_key
\* on a URL that does not encode) is caught inside the loop and becomes the
\* error entry of the URL.
batch_item_gated(url, DOMAIN_ALLOWLIST, env, acc, res) ==
    IF ~res.allowed
    THEN Outcome(200,
             Append(acc.results,
                 Result("blocked", url.text, <<>>, Absent, Absent, Absent,
                        0, "blocked", "URL not allowed", res.reason,
                        res.detail, FALSE)),
             "", acc.events, acc.store)
    ELSE IF ~utf8_encodes(url)
    THEN Outcome(200,
             Append(acc.results,
                 Result("error", url.text, <<>>, Absent, Absent, Absent,
                        0, "error", "UnicodeEncodeError", "", "", FALSE)),
             "", acc.events, acc.store)
    ELSE IF get_from_cache(acc.store, get_cache_key(url)) # NoEntry
    THEN Outcome(200,
             Append(acc.results,
                    get_from_cache(acc.store, get_cache_key(url))),
             "", acc.events, acc.store)
    ELSE Only({batch_item_scored(url, acc, domain_info, ssl) :
                  domain_info \in {safe_get_domain_age(env.whois)},
                  ssl \in {safe_check_ssl(url, DOMAIN_ALLOWLIST, env)}})

\* the body of the loop of batch_check_sites for one URL, acc being the
\* outcome of the URLs before it: the gate first, then the cache, then the
\* probes
batch_item(url, DOMAIN_ALLOWLIST, env, acc) ==
    Only({batch_item_gated(url, DOMAIN_ALLOWLIST, env,
              Outcome(200, acc.results, "",
                      acc.events \o <<Event("is_url_allowed", url, res)>>,
                      acc.store),
              res) :
          res \in {is_url_allowed(url, DOMAIN_ALLOWLIST, env.dns)}})

RECURSIVE batch_loop(_, _, _, _)
batch_loop(urls, DOMAIN_ALLOWLIST, env, acc) ==
    IF urls = <<>> THEN acc
    ELSE Only({batch_loop(Tail(urls), DOMAIN_ALLOWLIST, env, next) :
                  next \in {batch_item(Head(urls), DOMAIN_ALLOWLIST, env,
                                       acc)}})

\* a JSON object as the body of POST /batch-check: with the key "urls" or
\* without it, the value of "urls" being a list of strings, or null where
\* list is FALSE
BatchBody(has_urls, urls) == [json |-> "object", url |-> UrlEmpty, has_urls |-> has_urls, list |-> TRUE, urls |-> urls]
UrlsNullBody == [json |-> "object", url |-> UrlEmpty, has_urls |-> TRUE, list |-> FALSE, urls |-> <<>>]

\* batch_check_sites without the slice [:10]
batch_check_sites_uncapped(data, DOMAIN_ALLOWLIST, store, env) ==
    IF data.json = "null"
    THEN Outcome(400, <<>>, "URLs array is required", <<>>, store)
    ELSE IF data.json # "object"
    THEN Outcome(500, <<>>, "TypeError", <<>>, store)
    ELSE IF ~data.has_urls
    THEN Outcome(400, <<>>, "URLs array is required", <<>>, store)
    ELSE IF ~data.list
    THEN Outcome(500, <<>>, "TypeError", <<>>, store)
    ELSE batch_loop(data.urls, DOMAIN_ALLOWLIST, env,
                    Outcome(200, <<>>, "", <<>>, store))

\* batch_check_sites(): POST /batch-check with the body data.  The whole
\* handler is inside a try: "not data" is true of null, 'urls' not in data
\* raises TypeError on a number and data['urls'][:10] raises TypeError on
\* null, and the outer except turns both into the response 500.
batch_check_sites(data, DOMAIN_ALLOWLIST, store, env) ==
    IF data.json = "null"
    THEN Outcome(400, <<>>, "URLs array is required", <<>>, store)
    ELSE IF data.json # "object"
    THEN Outcome(500, <<>>, "TypeError", <<>>, store)
    ELSE IF ~data.has_urls
    THEN Outcome(400, <<>>, "URLs array is required", <<>>, store)
    ELSE IF ~data.list
    THEN Outcome(500, <<>>, "TypeError", <<>>, store)
    ELSE
    LET n == Min2(Len(data.urls), BatchLimit)
        urls == SubSeq(data.urls, 1, n)
    IN  batch_loop(urls, DOMAIN_ALLOWLIST, env,
                   Outcome(200, <<>>, "", <<>>, store))

\* process_site_check(url), the Celery task.  urlparse raises ValueError on
\* a URL it cannot parse; otherwise the task calls
\* whois_checker.get_domain_age(domain, timeout=5), and get_domain_age(self,
\* domain) takes no timeout: the call raises TypeError before any lookup, and
\* the lines after it never run.  status 0: the task gives no response.
process_site_check(url, store) ==
    IF ~url.parses THEN Outcome(0, <<>>, "ValueError", <<>>, store)
    ELSE Outcome(0, <<>>, "TypeError", <<>>, store)

\* how requests.head and the requests.get after it end
HttpOutcomes == {"head_ok", "get_ok", "both_fail"}

\* safe_requests_head(url): ValueError when the gate rejects the URL;
\* otherwise HEAD, then GET when HEAD raised, RuntimeError when both raised.
\* status is the status code of the reply it returns.
safe_requests_head(url, DOMAIN_ALLOWLIST, store, env) ==
    LET res == is_url_allowed(url, DOMAIN_ALLOWLIST, env.dns)
        gated == <<Event("is_url_allowed", url, res)>>
        head == <<Event("requests.head", url, NoGate)>>
        get == <<Event("requests.get", url, NoGate)>>
    IN  IF ~res.allowed THEN Outcome(0, <<>>, "ValueError", gated, store)
        ELSE IF env.http = "head_ok"
        THEN Outcome(200, <<>>, "", gated \o head, store)
        ELSE IF env.http = "get_ok"
        THEN Outcome(200, <<>>, "", gated \o head \o get, store)
        ELSE Outcome(0, <<>>, "RuntimeError", gated \o head \o get, store)

---------------------------------------------------------------------------
(* whois_checker.py: WhoisChecker *)

\* the registered domains of the model and the arguments that name them
WhoisDomains == {"example.com", "other.org"}
WhoisArgs == {"example.com", "https://www.example.com/path", "other.org"}

\* _normalize_domain(domain): strip, lower, netloc of a URL, no www. prefix,
\* base domain of a subdomain
normalize_domain(domain) ==
    CASE domain = "https://www.example.com/path" -> "example.com"
      [] OTHER -> domain

\* the creation date and the registrars the upstream sources hold for a
\* domain; <<>> stands for None
CreationDate(domain) ==
    IF domain = "example.com" THEN "2016-03-15T00:00:00"
    ELSE "2018-05-20T10:15:30"
Registrar(source, domain) == <<source, domain>>

\* What get_domain_age returns: the mapping with the creation date (from
\* which domain_age_years is computed) and the registrar, None, or
\* {"domain_age_years": 0, "error": "whois_unavailable"}.
AgeFound(creation_date, registrar) ==
    [kind |-> "found", creation_date |-> creation_date,
     registrar |-> registrar]
NoAge == [kind |-> "none", creation_date |-> "", registrar |-> <<>>]
WhoisUnavailable ==
    [kind |-> "whois_unavailable", creation_date |-> "", registrar |-> <<>>]

\* WhoisChecker.__init__: the empty cache (NoAge for a domain not in it), the
\* flags and the last registrar
NewChecker ==
    [cache |-> [d \in WhoisDomains |-> NoAge],
     who_dat_rate_limited |-> FALSE, who_dat_failed |-> FALSE,
     rdap_failed |-> FALSE, who_dat_timeout |-> FALSE,
     rdap_timeout |-> FALSE, last_registrar |-> <<>>]

\* What the upstream sources do during one lookup.  who_dat: "date_registrar"
\* and "date" (status 200 with a creation date, with or without a registrar),
\* "none" (200 without a date), "429", "failed" (another status or a
\* RequestException), "timeout", "raises" (an exception that _try_who_dat
\* does not catch).  rdap: "date", "none", "failed", "timeout".
\* python_whois: "date" or "none".  whoisxml: "no_key" (WHOISXML_API_KEY is
\* not set, no request is made), "date", "none".  registrar: whether
\* whois.whois(domain) reports a registrar.
Upstream(who_dat, rdap, python_whois, whoisxml, registrar) ==
    [who_dat |-> who_dat, rdap |-> rdap, python_whois |-> python_whois,
     whoisxml |-> whoisxml, registrar |-> registrar]

\* what a source gives back: the checker as it leaves it, the creation date
\* ("" for None) and whether an exception left it
Tried(self, date, raised) == [self |-> self, date |-> date, raised |-> raised]

\* _try_who_dat(domain)
try_who_dat(self, domain, up) ==
    CASE up.who_dat = "429" ->
            Tried([self EXCEPT !.who_dat_rate_limited = TRUE], "", FALSE)
      [] up.who_dat = "failed" ->
            Tried([self EXCEPT !.who_dat_failed = TRUE], "", FALSE)
      [] up.who_dat = "timeout" ->
            Tried([self EXCEPT !.who_dat_timeout = TRUE,
                               !.who_dat_failed = TRUE], "", FALSE)
      [] up.who_dat = "date_registrar" ->
            Tried([self EXCEPT !.last_registrar = Registrar("who-dat", domain)],
                  CreationDate(domain), FALSE)
      [] up.who_dat = "date" -> Tried(self, CreationDate(domain), FALSE)
      [] up.who_dat = "raises" -> Tried(self, "", TRUE)
      [] OTHER -> Tried(self, "", FALSE)

\* _try_rdap(domain)
try_rdap(self, domain, up) ==
    CASE up.rdap = "failed" ->
            Tried([self EXCEPT !.rdap_failed = TRUE], "", FALSE)
      [] up.rdap = "timeout" ->
            Tried([self EXCEPT !.rdap_timeout = TRUE,
                               !.rdap_failed = TRUE], "", FALSE)
      [] up.rdap = "date" -> Tried(self, CreationDate(domain), FALSE)
      [] OTHER -> Tried(self, "", FALSE)

\* _try_python_whois(domain): every exception gives None
try_python_whois(self, domain, up) ==
    IF up.python_whois = "date" THEN Tried(self, CreationDate(domain), FALSE)
    ELSE Tried(self, "", FALSE)

\* _try_whoisxml(domain)
try_whoisxml(self, domain, up) ==
    IF up.whoisxml = "date"
    THEN Tried([self EXCEPT !.last_registrar = Registrar("whoisxml", domain)],
               CreationDate(domain), FALSE)
    ELSE Tried(self, "", FALSE)

\* _get_registrar(domain): whois.whois(domain).registrar
get_registrar(domain, up) ==
    IF up.registrar THEN Registrar("python-whois", domain) ELSE <<>>

\* the cache lookup of get_domain_age that is never a hit
cache_lookup_never(self, domain) == NoAge

\* the cache lookup at the head of get_domain_age: NoAge when the domain is
\* not in self._cache
cache_lookup(self, domain) == self.cache[domain]

\* the reset at the head of a lookup: the two timeout flags are not among the
\* flags it resets
reset_flags(self) ==
    [self EXCEPT !.who_dat_rate_limited = FALSE, !.who_dat_failed = FALSE,
                 !.rdap_failed = FALSE, !.last_registrar = <<>>]

\* the return value at the foot of get_domain_age, from the flags of the
\* checker and the result ("not result" is true of None only)
returned(self, result) ==
    IF result # NoAge THEN result
    ELSE IF self.who_dat_rate_limited THEN NoAge
    ELSE IF self.who_dat_timeout /\ self.rdap_timeout THEN NoAge
    ELSE IF self.who_dat_failed /\ self.rdap_failed THEN WhoisUnavailable
    ELSE NoAge

\* a finished lookup: the checker after it, the value returned and the
\* upstream queries made, in their order
Looked(self, result, queries) ==
    [self |-> self, result |-> result, queries |-> queries]

\* WhoisChecker.get_domain_age(domain) on the checker self while the
\* upstream sources behave as up says.  The registrar lookup that follows a
\* success without a registrar is a query of python-whois.
get_domain_age(self, arg, up) ==
    LET domain == normalize_domain(arg)
        hit == cache_lookup(self, domain)
        start == reset_flags(self)
        a == try_who_dat(start, domain, up)
        b == IF a.date = "" THEN try_rdap(a.self, domain, up) ELSE a
        c == IF b.date = "" THEN try_python_whois(b.self, domain, up) ELSE b
        d == IF c.date = "" /\ up.whoisxml # "no_key"
             THEN try_whoisxml(c.self, domain, up) ELSE c
        tried ==
            <<"who-dat">>
            \o (IF a.date = "" THEN <<"rdap">> ELSE <<>>)
            \o (IF b.date = "" THEN <<"python-whois">> ELSE <<>>)
            \o (IF c.date = "" /\ up.whoisxml # "no_key"
                THEN <<"whoisxml">> ELSE <<>>)
        registrar ==
            IF d.self.last_registrar # <<>> THEN d.self.last_registrar
            ELSE get_registrar(domain, up)
        result == AgeFound(d.date, registrar)
    IN  IF hit # NoAge THEN Looked(self, hit, <<>>)
        ELSE IF a.raised THEN Looked(a.self, returned(a.self, NoAge), <<"who-dat">>)
        ELSE IF d.date = "" THEN Looked(d.self, returned(d.self, NoAge), tried)
        ELSE Looked([d.self EXCEPT !.cache[domain] = result], result,
                    tried \o (IF d.self.last_registrar # <<>> THEN <<>>
                              ELSE <<"python-whois">>))

\* the variables of the other specifications at rest
NoRequest ==
    [op |-> "none", urls |-> <<>>, status |-> 0, results |-> <<>>,
     error |-> "", events |-> <<>>]
GateIdle == [st |-> "none", url |-> UrlEmpty, dns |-> LookupFailed, out |-> NoGate]

\* A request in flight: pc is "idle" before the request arrives, "computing"
\* between its cache lookup, which missed, and its write, and "done" once it
\* has answered; wrote is the entry it put into the cache and response the
\* result it answered with.
IdleTask == [pc |-> "idle", op |-> "none", wrote |-> NoEntry, response |-> NoEntry]
RaceProcs == {1, 2}
\* the requests in flight under one state of the world, and the order of
\* their writes to the cache
Race(env) == [env |-> env, p |-> [i \in RaceProcs |-> IdleTask], writes |-> <<>>]
NoRace == Race(Env(LookupFailed, WhoisNone, CertInvalid, "head_ok"))

\* A calculator, ScoreCalculator(...), whose weights are self, and the calls
\* made so far, each with its arguments, its result and what it left behind.
Session(self) == [self |-> self, log |-> <<>>]
NoSession == Session(TwoFactorWeights)

\* A checker, the number of lookups made on it and the last of them: its
\* argument, the upstream sources during it, the checker before it, the value
\* returned and the upstream queries made.
Lookup(arg, up, before, result, queries) ==
    [arg |-> arg, up |-> up, before |-> before, result |-> result,
     queries |-> queries]
NoLookup ==
    Lookup("", Upstream("none", "none", "none", "no_key", FALSE), NewChecker,
           NoAge, <<>>)
NoWhois == [self |-> NewChecker, calls |-> 0, last |-> NoLookup]

---------------------------------------------------------------------------
(* SpecScore: the scoring functions applied to bounded inputs *)

\* ages in years, in steps of a tenth, and None
AgeValues ==
    {PyNone} \cup {PyNum(Dec(t, 10)) : t \in -MaxAgeTenths..MaxAgeTenths}

ValidityValues == {Absent, PyNone, PyBool(TRUE), PyBool(FALSE)}
StrengthValues ==
    {Absent, PyNone, PyStr("strong"), PyStr("medium"), PyStr("weak"),
     PyStr("unknown"), PyStr("WEAK")}
ExpiringValues == {Absent, PyBool(TRUE), PyBool(FALSE)}
DaysValues ==
    {Absent, PyNone, PyNum(Num(-10)), PyNum(Num(15)), PyNum(Num(29)),
     PyNum(Num(30)), PyNum(Num(90))}

\* certificate data: every combination of the keys calculate_ssl_score reads
CertValues ==
    {PyDict([is_valid |-> iv, valid |-> v, cipher_strength |-> cs,
             expiring_soon |-> es, days_until_expiry |-> d,
             issuer |-> Absent]) :
        iv \in ValidityValues, v \in ValidityValues, cs \in StrengthValues,
        es \in ExpiringValues, d \in DaysValues}

\* weak_ciphers_found: lists of 0..MaxWeak cipher names
WeakLists == {PyList([i \in 1..n |-> "RC4-MD5"]) : n \in 0..MaxWeak}

\* normalized probe scores, some outside [0, 1]
ProbeScores ==
    {PyNum(Dec(-2, 10)), PyNum(0), PyNum(Dec(15, 100)), PyNum(Dec(5, 10)),
     PyNum(Dec(85, 100)), PyNum(Num(1)), PyNum(Dec(15, 10))}

CipherValues ==
    {PyDict([cipher_score |-> cs, cipher_strength |-> st,
             weak_ciphers_found |-> w]) :
        cs \in ProbeScores \cup {Absent, PyNone},
        st \in {Absent, PyStr("weak"), PyStr("strong")},
        w \in WeakLists \cup {Absent, PyNone}}

DnsValues ==
    {PyDict([dns_score |-> ds, spf_record |-> spf, dmarc_record |-> dm]) :
        ds \in ProbeScores \cup {Absent, PyNone},
        spf \in {Absent, PyNone, PyStr("v=spf1 -all")},
        dm \in {Absent, PyStr("v=DMARC1; p=reject")}}

\* the weights a ScoreCalculator is constructed with: the two-factor
\* defaults, the four-factor weights, and weights that do not sum to 1
\* (__init__ then only logs a warning)
WeightValues ==
    {TwoFactorWeights, DefaultWeights,
     [domain |-> Num(1), ssl |-> Num(1), cipher |-> 0, dns |-> 0]}

\* the inputs of ScoreCalculator.calculate_score
EngineAges ==
    {Absent, PyNone, PyNum(Dec(5, 10)), PyNum(Num(3)), PyNum(Num(10))}
EngineCerts ==
    {PyDict([is_valid |-> iv, valid |-> v, cipher_strength |-> cs,
             expiring_soon |-> es, days_until_expiry |-> Absent,
             issuer |-> Absent]) :
        iv \in {Absent, PyBool(TRUE), PyBool(FALSE)},
        v \in {Absent, PyBool(TRUE)},
        cs \in {Absent, PyNone, PyStr("weak")},
        es \in {Absent, PyBool(TRUE)}}
EngineCiphers ==
    {PyDict([cipher_score |-> cs, cipher_strength |-> Absent,
             weak_ciphers_found |-> w]) :
        cs \in {Absent, PyNum(Dec(85, 100)), PyNum(Dec(998, 1000)),
                PyNum(Num(1))},
        w \in {Absent, PyList(<<"RC4-MD5">>)}}
EngineDns ==
    {PyDict([dns_score |-> ds, spf_record |-> spf, dmarc_record |-> dm]) :
        ds \in {Absent, PyNum(Dec(15, 100)), PyNum(Num(1))},
        spf \in {Absent, PyNone, PyStr("v=spf1 -all")},
        dm \in {Absent, PyNone, PyStr("v=DMARC1; p=reject")}}

\* the arguments of calculate_composite_score: signal inputs, legacy
\* sub-scores and legacy weights
CompAges ==
    {PyNone, PyNum(Dec(5, 10)), PyNum(Num(2)), PyNum(Num(10)),
     PyNum(Num(100)), PyNum(Dec(737, 10))}
CompValid ==
    {PyBool(TRUE), PyBool(FALSE), PyNone, PyNum(0), PyNum(Num(100)),
     PyNum(Dec(883, 10))}
CompDays ==
    {PyNone, PyNum(0), PyNum(Num(1)), PyNum(Num(15)), PyNum(Num(90)),
     PyNum(Dec(5, 10)), PyNum(Dec(8, 10)), PyStr("soon")}
CompIssuer ==
    {PyStr(""), PyStr("Let's Encrypt"), PyNone, PyNum(Dec(5, 10)),
     PyNum(Dec(2, 10))}
CompProbe ==
    {PyNum(Dec(5, 10)), PyNum(0), PyNum(Num(1)), PyNum(Num(3)), PyNone}

Idle == [fn |-> "none", args |-> <<>>, out |-> NoCall]

CallDomainAgeScore ==
    /\ call = Idle
    /\ \E a \in AgeValues :
        call' = [fn |-> "calculate_domain_age_score", args |-> <<a>>,
                 out |-> Ret(calculate_domain_age_score(a))]
    /\ UNCHANGED <<allowlist, cache, req, gate, inflight, session, whois_checker>>

\* None in the place of the certificate data
NoneCert == [none |-> TRUE, f |-> [is_valid |-> Absent, valid |-> Absent,
             cipher_strength |-> Absent, expiring_soon |-> Absent,
             days_until_expiry |-> Absent, issuer |-> Absent]]

\* None in the place of the cipher data and of the DNS data, the defaults of
\* the parameters cipher_data and dns_data
NoneCipher == [none |-> TRUE, f |-> [cipher_score |-> Absent,
               cipher_strength |-> Absent, weak_ciphers_found |-> Absent]]
NoneDns == [none |-> TRUE, f |-> [dns_score |-> Absent, spf_record |-> Absent, dmarc_record |-> Absent]]

CallSslScore ==
    /\ call = Idle
    /\ \E c \in CertValues \cup {NoneCert} :
        call' = [fn |-> "calculate_ssl_score", args |-> <<c>>,
                 out |-> calculate_ssl_score(c)]
    /\ UNCHANGED <<allowlist, cache, req, gate, inflight, session, whois_checker>>

CallCipherScore ==
    /\ call = Idle
    /\ \E c \in CipherValues :
        call' = [fn |-> "calculate_cipher_score", args |-> <<c>>,
                 out |-> calculate_cipher_score(c)]
    /\ UNCHANGED <<allowlist, cache, req, gate, inflight, session, whois_checker>>

CallDnsScore ==
    /\ call = Idle
    /\ \E d \in DnsValues :
        call' = [fn |-> "calculate_dns_score", args |-> <<d>>,
                 out |-> calculate_dns_score(d)]
    /\ UNCHANGED <<allowlist, cache, req, gate, inflight, session, whois_checker>>

CallCalculateScore ==
    /\ call = Idle
    /\ \E w \in WeightValues, a \in EngineAges, c \in EngineCerts,
          ci \in EngineCiphers \cup {NoneCipher},
          d \in EngineDns \cup {NoneDns} :
        call' = [fn |-> "calculate_score",
                 args |-> <<w, PyDict([domain_age_years |-> a]), c, ci, d>>,
                 out |-> calculate_score(
                     w, PyDict([domain_age_years |-> a]), c, ci, d)]
    /\ UNCHANGED <<allowlist, cache, req, gate, inflight, session, whois_checker>>

CallCompositeScore ==
    /\ call = Idle
    /\ \E a \in CompAges, v \in CompValid, d \in CompDays, i \in CompIssuer,
          cs \in CompProbe, ds \in CompProbe :
        call' = [fn |-> "calculate_composite_score",
                 args |-> <<a, v, d, i, cs, ds>>,
                 out |-> calculate_composite_score(a, v, d, i, cs, ds)]
    /\ UNCHANGED <<allowlist, cache, req, gate, inflight, session, whois_checker>>

\* the scoring functions keep no state between calls: a behaviour is one call
InitScore ==
    /\ allowlist = {}
    /\ cache = EmptyCache
    /\ req = NoRequest
    /\ gate = GateIdle
    /\ call = Idle
    /\ inflight = NoRace
    /\ session = NoSession
    /\ whois_checker = NoWhois

NextScore ==
    \/ CallDomainAgeScore
    \/ CallSslScore
    \/ CallCipherScore
    \/ CallDnsScore
    \/ CallCalculateScore
    \/ CallCompositeScore

SpecScore == InitScore /\ [][NextScore]_vars

---------------------------------------------------------------------------
(* SpecSession: a sequence of calls on one calculator *)

\* what a call leaves behind: its result, the weights of the calculator and
\* the mappings (or values) it was given, as they are after the call
Left(out, self, args) == [out |-> out, self |-> self, args |-> args]

\* a call of calculate_score that stores the four-factor weights in the
\* calculator
calculate_score_call_reweighting(self, domain_data, ssl_data, cipher_data, dns_data) ==
    Left(calculate_score(self, domain_data, ssl_data, cipher_data, dns_data),
         DefaultWeights, <<domain_data, ssl_data, cipher_data, dns_data>>)

\* A call of ScoreCalculator.calculate_score on a calculator whose weights
\* are self.  The method assigns no attribute of self, reads its mappings
\* with .get only, and reads nothing but self and its arguments.
calculate_score_call(self, domain_data, ssl_data, cipher_data, dns_data) ==
    Left(calculate_score(self, domain_data, ssl_data, cipher_data, dns_data),
         self, <<domain_data, ssl_data, cipher_data, dns_data>>)

\* A call of the module-level calculate_composite_score while a calculator
\* with weights self exists: the function builds its own ssl_data and has no
\* calculator at hand.
calculate_composite_score_call(self, args) ==
    Left(calculate_composite_score(args[1], args[2], args[3], args[4],
                                   args[5], args[6]),
         self, args)

\* the arguments of the calls of a session
SessionCerts ==
    {PyDict([is_valid |-> Absent, valid |-> PyBool(TRUE),
             cipher_strength |-> cs, expiring_soon |-> Absent,
             days_until_expiry |-> Absent, issuer |-> Absent]) :
        cs \in {Absent, PyStr("weak")}}
SessionCipher ==
    PyDict([cipher_score |-> PyNum(Dec(85, 100)), cipher_strength |-> Absent,
            weak_ciphers_found |-> PyList(<<"RC4-MD5">>)])
SessionDns ==
    PyDict([dns_score |-> PyNum(Dec(15, 100)), spf_record |-> PyNone,
            dmarc_record |-> PyNone])
SessionScoreArgs ==
    {<<PyDict([domain_age_years |-> a]), c, p[1], p[2]>> :
        a \in {PyNone, PyNum(Num(3))}, c \in SessionCerts,
        p \in {<<NoneCipher, NoneDns>>, <<SessionCipher, SessionDns>>}}
SessionCompositeArgs ==
    {<<PyNum(Num(2)), PyBool(TRUE), PyNum(Num(90)), PyStr("Let's Encrypt"),
       PyNum(Dec(5, 10)), PyNum(Dec(5, 10))>>,
     <<PyNum(Num(100)), PyNum(0), PyNum(Dec(5, 10)), PyNum(Dec(2, 10)),
       PyNum(Dec(5, 10)), PyNum(Dec(5, 10))>>,
     <<PyNone, PyBool(FALSE), PyStr("soon"), PyNone, PyNum(Dec(5, 10)),
       PyNum(Dec(5, 10))>>}

\* the entry of the log for a call made when the weights were self
Logged(fn, self, args, left) ==
    [fn |-> fn, self |-> self, args |-> args, out |-> left.out,
     self_after |-> left.self, args_after |-> left.args]

SessionCalculateScore ==
    /\ Len(session.log) < MaxCalls
    /\ \E args \in SessionScoreArgs :
        \E left \in {calculate_score_call(session.self, args[1], args[2],
                                          args[3], args[4])} :
            session' = [self |-> left.self,
                        log |-> Append(session.log,
                                    Logged("calculate_score", session.self,
                                           args, left))]
    /\ UNCHANGED <<allowlist, cache, req, gate, call, inflight, whois_checker>>

SessionCompositeScore ==
    /\ Len(session.log) < MaxCalls
    /\ \E args \in SessionCompositeArgs :
        \E left \in {calculate_composite_score_call(session.self, args)} :
            session' = [self |-> left.self,
                        log |-> Append(session.log,
                                    Logged("calculate_composite_score",
                                           session.self, args, left))]
    /\ UNCHANGED <<allowlist, cache, req, gate, call, inflight, whois_checker>>

InitSession ==
    /\ allowlist = {}
    /\ cache = EmptyCache
    /\ req = NoRequest
    /\ gate = GateIdle
    /\ call = Idle
    /\ inflight = NoRace
    /\ session \in {Session(w) : w \in WeightValues}
    /\ whois_checker = NoWhois

NextSession ==
    \/ SessionCalculateScore
    \/ SessionCompositeScore

SpecSession == InitSession /\ [][NextSession]_vars

---------------------------------------------------------------------------
(* SpecPair: a scoring call and the same call with one signal raised *)

ScoringFunctions ==
    {"calculate_domain_age_score", "calculate_weighted_composite_score",
     "calculate_score", "calculate_composite_score"}

\* the weights of the calculator: those of SpecScore and a set with a
\* negative weight
PairWeights ==
    WeightValues \cup
        {[domain |-> Dec(6, 10), ssl |-> Dec(6, 10), cipher |-> 0 - Dec(2, 10),
          dns |-> 0]}

PairAges ==
    {PyNone, PyNum(0 - Num(1)), PyNum(Dec(5, 10)), PyNum(Num(1)),
     PyNum(Num(3)), PyNum(Num(5))}
PairProbes ==
    {PyNum(0), PyNum(Dec(15, 100)), PyNum(Dec(5, 10)), PyNum(Dec(85, 100)),
     PyNum(Num(1))}
PairSubScores == {PyNum(0), PyNum(Num(50)), PyNum(Num(100))}

\* The arguments of a call: the signals first.  calculate_score and
\* calculate_composite_score take the age, the normalized cipher score and
\* the normalized DNS score, and then the certificate data.
PairArgs(fn) ==
    CASE fn = "calculate_domain_age_score" -> {<<a>> : a \in AgeValues}
      [] fn = "calculate_weighted_composite_score" ->
            {<<d, s, c, n>> : d \in PairSubScores, s \in PairSubScores,
                              c \in PairSubScores, n \in PairSubScores}
      [] fn = "calculate_score" ->
            {<<a, cs, ds, c>> : a \in PairAges, cs \in PairProbes,
                                ds \in PairProbes, c \in SessionCerts}
      [] fn = "calculate_composite_score" ->
            {<<a, cs, ds, v>> : a \in PairAges, cs \in PairProbes,
                                ds \in PairProbes,
                                v \in {PyBool(TRUE), PyBool(FALSE)}}

\* the positions of the signals among the arguments
Signals(fn) ==
    CASE fn = "calculate_domain_age_score" -> {1}
      [] fn = "calculate_weighted_composite_score" -> 1..4
      [] OTHER -> 1..3

\* the values a signal is drawn from
SignalValues(fn, k) ==
    CASE fn = "calculate_domain_age_score" -> AgeValues
      [] fn = "calculate_weighted_composite_score" -> PairSubScores
      [] OTHER -> IF k = 1 THEN PairAges ELSE PairProbes

\* the call fn(args) on a calculator whose weights are self; a function that
\* returns a number gives a bare number
scoring_call(fn, self, args) ==
    CASE fn = "calculate_domain_age_score" ->
            BareNumber(calculate_domain_age_score(args[1]))
      [] fn = "calculate_weighted_composite_score" ->
            BareNumber(calculate_weighted_composite_score(
                args[1].n, args[2].n, args[3].n, args[4].n,
                self.domain, self.ssl, self.cipher, self.dns))
      [] fn = "calculate_score" ->
            calculate_score(self, PyDict([domain_age_years |-> args[1]]),
                args[4],
                PyDict([cipher_score |-> args[2], cipher_strength |-> Absent,
                        weak_ciphers_found |-> PyList(<<"RC4-MD5">>)]),
                PyDict([dns_score |-> args[3], spf_record |-> PyNone,
                        dmarc_record |-> PyNone]))
      [] fn = "calculate_composite_score" ->
            calculate_composite_score(args[1], args[4], PyNum(Num(90)),
                PyStr("Let's Encrypt"), args[2], args[3])

\* the first call
PairCall ==
    /\ session.log = <<>>
    /\ \E fn \in ScoringFunctions :
        \E args \in PairArgs(fn) :
            \E out \in {scoring_call(fn, session.self, args)} :
                session' = [session EXCEPT !.log =
                    <<Logged(fn, session.self, args,
                             Left(out, session.self, args))>>]
    /\ UNCHANGED <<allowlist, cache, req, gate, call, inflight, whois_checker>>

\* the second call: the first call with one numeric signal raised
PairRaise ==
    /\ Len(session.log) = 1
    /\ LET first == session.log[1]
       IN  \E k \in Signals(first.fn) :
               \E v \in SignalValues(first.fn, k) :
                   /\ first.args[k].k = "num"
                   /\ v.k = "num"
                   /\ v.n > first.args[k].n
                   /\ \E out \in {scoring_call(first.fn, session.self,
                                      [first.args EXCEPT ![k] = v])} :
                          session' = [session EXCEPT !.log = Append(@,
                              Logged(first.fn, session.self,
                                     [first.args EXCEPT ![k] = v],
                                     Left(out, session.self,
                                          [first.args EXCEPT ![k] = v])))]
    /\ UNCHANGED <<allowlist, cache, req, gate, call, inflight, whois_checker>>

InitPair ==
    /\ allowlist = {}
    /\ cache = EmptyCache
    /\ req = NoRequest
    /\ gate = GateIdle
    /\ call = Idle
    /\ inflight = NoRace
    /\ session \in {Session(w) : w \in PairWeights}
    /\ whois_checker = NoWhois

NextPair ==
    \/ PairCall
    \/ PairRaise

SpecPair == InitPair /\ [][NextPair]_vars

---------------------------------------------------------------------------
(* dns_checker.py: the DNS probe *)

\* round(x, 2): to two decimal places, ties to the even digit
Round2(x) ==
    LET step == FP \div 100
        q == x \div step
        r == x % step
    IN  IF 2 * r < step THEN q * step
        ELSE IF 2 * r > step THEN (q + 1) * step
        ELSE IF q % 2 = 0 THEN q * step ELSE (q + 1) * step

\* The record sets the probe collects: the lists by their lengths, the SPF and
\* DMARC records and the DKIM flag by whether they were found.
DnsData(a, aaaa, mx, ns, spf, dmarc, dkim) ==
    [a_records |-> a, aaaa_records |-> aaaa, mx_records |-> mx,
     ns_records |-> ns, spf_record |-> spf, dmarc_record |-> dmarc,
     dkim_configured |-> dkim]

\* _calculate_dns_score(dns_data) of dns_checker.py: score and reliability
dns_checker_calculate_dns_score(dns_data) ==
    LET score ==
              (IF dns_data.a_records > 0 THEN Dec(20, 100) ELSE 0)
            + (IF dns_data.aaaa_records > 0 THEN Dec(10, 100) ELSE 0)
            + (IF dns_data.mx_records > 0 THEN Dec(15, 100) ELSE 0)
            + (IF dns_data.mx_records > 1 THEN Dec(5, 100) ELSE 0)
            + (IF dns_data.ns_records >= 2 THEN Dec(20, 100)
               ELSE IF dns_data.ns_records = 1 THEN Dec(10, 100) ELSE 0)
            + (IF dns_data.spf_record THEN Dec(10, 100) ELSE 0)
            + (IF dns_data.dmarc_record THEN Dec(15, 100) ELSE 0)
            + (IF dns_data.dkim_configured THEN Dec(10, 100) ELSE 0)
    IN  [score |-> Round2(score),
         reliability |->
             IF score >= Dec(80, 100) THEN "high"
             ELSE IF score >= Dec(60, 100) THEN "medium"
             ELSE IF score >= Dec(40, 100) THEN "low"
             ELSE "very_low"]

\* what a probe gives back: a result mapping, of which the model keeps the
\* error, the score and the rating, or an exception that leaves the probe
ProbeInfo(error, score, rating) ==
    [st |-> "ok", exc |-> "", error |-> error, score |-> score,
     rating |-> rating]
ProbeRaised(e) ==
    [st |-> "raise", exc |-> e, error |-> PyNone, score |-> 0, rating |-> ""]

\* The world of one DNS check: whether dnspython could be imported
\* (DNS_AVAILABLE, and dns = None otherwise), whether the argument is a
\* string, whether dns.resolver.Resolver() raises a DNSException, and the
\* records the queries find (a query that raises counts as finding none).
DnsWorld(available, is_str, resolver, records) ==
    [DNS_AVAILABLE |-> available, is_str |-> is_str, resolver |-> resolver,
     records |-> records]

\* check_dns_records(domain).  An argument that is no string raises
\* AttributeError inside the try; the except clauses are then evaluated in
\* order, and the first, dns.resolver.NXDOMAIN, raises AttributeError itself
\* when dns is None.  The error "No DNS records found" is set after the
\* score was stored.
check_dns_records(w) ==
    IF ~w.is_str
    THEN (IF w.DNS_AVAILABLE
          THEN ProbeInfo(PyStr("AttributeError"), 0, "unknown")
          ELSE ProbeRaised("AttributeError"))
    ELSE IF ~w.DNS_AVAILABLE
    THEN ProbeInfo(PyStr("dnspython not installed"), 0, "unknown")
    ELSE IF w.resolver = "raise"
    THEN ProbeInfo(PyStr("DNS error"), 0, "unknown")
    ELSE
    LET score_data == dns_checker_calculate_dns_score(w.records)
    IN  ProbeInfo(IF /\ w.records.a_records = 0
                     /\ w.records.aaaa_records = 0
                     /\ w.records.mx_records = 0
                     /\ w.records.ns_records = 0
                  THEN PyStr("No DNS records found") ELSE PyNone,
                  score_data.score, score_data.reliability)

---------------------------------------------------------------------------
(* cipher_checker.py: the cipher probe *)

WEAK_PROTOCOLS == {"SSLv2", "SSLv3", "TLSv1.0", "TLSv1.1"}
STRONG_PROTOCOLS == {"TLSv1.2", "TLSv1.3"}

\* the cipher suites of the model: one of STRONG_CIPHERS, one that holds a
\* weak indicator of WEAK_CIPHERS, and one that is neither
StrongCipher == "ECDHE-RSA-AES256-GCM-SHA384"
WeakCipher == "RC4-MD5"
MediumCipher == "AES128-SHA"
CipherNames == {StrongCipher, WeakCipher, MediumCipher}

\* the loop of _calculate_cipher_score over the cipher names
RECURSIVE count_ciphers(_, _)
count_ciphers(ciphers, name) ==
    IF ciphers = <<>> THEN 0
    ELSE (IF Head(ciphers) = name THEN 1 ELSE 0)
         + count_ciphers(Tail(ciphers), name)

\* _calculate_cipher_score(ciphers, protocol) of cipher_checker.py: score,
\* strength and the number of entries of weak_ciphers
cipher_checker_calculate_cipher_score(ciphers, protocol) ==
    IF ciphers = <<>>
    THEN [score |-> 0, strength |-> "unknown", weak_ciphers |-> 0]
    ELSE
    LET protocol_score ==
            IF protocol \in STRONG_PROTOCOLS THEN Dec(4, 10)
            ELSE IF protocol \in WEAK_PROTOCOLS THEN 0
            ELSE Dec(2, 10)
        weak_count == count_ciphers(ciphers, WeakCipher)
        strong_count == count_ciphers(ciphers, StrongCipher)
        total_ciphers == Len(ciphers)
        cipher_score ==
            IF weak_count > 0
            THEN Max2(0, Mul(Dec(6, 10),
                             Num(1) - (Num(weak_count) \div total_ciphers)))
            ELSE IF strong_count > 0 THEN Dec(6, 10)
            ELSE Dec(4, 10)
        score == protocol_score + cipher_score
    IN  [score |-> Round2(score),
         strength |->
             IF score >= Dec(8, 10) THEN "strong"
             ELSE IF score >= Dec(5, 10) THEN "medium"
             ELSE "weak",
         weak_ciphers |->
             weak_count + (IF protocol \in WEAK_PROTOCOLS THEN 1 ELSE 0)]

\* The world of one cipher check: whether the argument is a string, whether a
\* TLS connection can be made (ssl.SSLError and OSError, which covers
\* socket.timeout and socket.gaierror, are caught per protocol), what
\* ssock.cipher() and ssock.version() give ("" for None), and
\* ssock.shared_ciphers(): a list, or AttributeError.
CipherWorld(is_str, connects, cipher_info, protocol, has_shared, shared) ==
    [is_str |-> is_str, connects |-> connects, cipher_info |-> cipher_info,
     protocol |-> protocol, has_shared |-> has_shared, shared |-> shared]

\* check_ciphers(domain)
check_ciphers(w) ==
    IF ~w.is_str THEN ProbeInfo(PyStr("AttributeError"), 0, "unknown")
    ELSE IF ~w.connects \/ w.cipher_info = "" \/ w.protocol = ""
    THEN ProbeInfo(PyStr("Unable to establish TLS connection"), 0, "unknown")
    ELSE
    LET supported_ciphers ==
            IF w.has_shared /\ w.shared # <<>> THEN w.shared
            ELSE <<w.cipher_info>>
        score_data == cipher_checker_calculate_cipher_score(
                          supported_ciphers, w.protocol)
    IN  ProbeInfo(IF supported_ciphers = <<>>
                  THEN PyStr("No cipher suites reported") ELSE PyNone,
                  score_data.score, score_data.strength)

---------------------------------------------------------------------------
(* SpecProbe: the DNS and cipher probes applied to bounded worlds *)

DnsRecordSets ==
    {DnsData(a, aaaa, mx, ns, spf, dmarc, dkim) :
        a \in 0..1, aaaa \in 0..1, mx \in 0..MaxRecords,
        ns \in 0..MaxRecords, spf \in BOOLEAN, dmarc \in BOOLEAN,
        dkim \in BOOLEAN}
DnsWorlds ==
    {DnsWorld(available, is_str, resolver, records) :
        available \in BOOLEAN, is_str \in BOOLEAN,
        resolver \in {"ok", "raise"}, records \in DnsRecordSets}

CipherLists ==
    UNION {[1..n -> CipherNames] : n \in 0..MaxCiphers}
ProtocolNames == {"TLSv1.3", "TLSv1.2", "TLSv1.1", "TLSv1"}
CipherWorlds ==
    {CipherWorld(is_str, connects, cipher_info, protocol, has_shared, shared) :
        is_str \in BOOLEAN, connects \in BOOLEAN,
        cipher_info \in {"", MediumCipher},
        protocol \in {"", "TLSv1.3", "TLSv1.1"},
        has_shared \in BOOLEAN, shared \in CipherLists}

CallCheckDnsRecords ==
    /\ call = Idle
    /\ \E w \in DnsWorlds :
        call' = [fn |-> "check_dns_records", args |-> <<w>>,
                 out |-> check_dns_records(w)]
    /\ UNCHANGED <<allowlist, cache, req, gate, inflight, session, whois_checker>>

CallCheckCiphers ==
    /\ call = Idle
    /\ \E w \in CipherWorlds :
        call' = [fn |-> "check_ciphers", args |-> <<w>>,
                 out |-> check_ciphers(w)]
    /\ UNCHANGED <<allowlist, cache, req, gate, inflight, session, whois_checker>>

CallDnsCheckerScore ==
    /\ call = Idle
    /\ \E d \in DnsRecordSets :
        call' = [fn |-> "_calculate_dns_score", args |-> <<d>>,
                 out |-> dns_checker_calculate_dns_score(d)]
    /\ UNCHANGED <<allowlist, cache, req, gate, inflight, session, whois_checker>>

CallCipherCheckerScore ==
    /\ call = Idle
    /\ \E ciphers \in CipherLists, protocol \in ProtocolNames :
        call' = [fn |-> "_calculate_cipher_score",
                 args |-> <<ciphers, protocol>>,
                 out |-> cipher_checker_calculate_cipher_score(
                             ciphers, protocol)]
    /\ UNCHANGED <<allowlist, cache, req, gate, inflight, session, whois_checker>>

\* the probes keep no state between calls: a behaviour is one call
InitProbe ==
    /\ allowlist = {}
    /\ cache = EmptyCache
    /\ req = NoRequest
    /\ gate = GateIdle
    /\ call = Idle
    /\ inflight = NoRace
    /\ session = NoSession
    /\ whois_checker = NoWhois

NextProbe ==
    \/ CallCheckDnsRecords
    \/ CallCheckCiphers
    \/ CallDnsCheckerScore
    \/ CallCipherCheckerScore

SpecProbe == InitProbe /\ [][NextProbe]_vars

---------------------------------------------------------------------------
(* SpecWhois: a sequence of lookups on one WhoisChecker *)

\* a source yields a creation date
Yields(up, source) ==
    CASE source = "who-dat" -> up.who_dat \in {"date_registrar", "date"}
      [] source = "rdap" -> up.rdap = "date"
      [] source = "python-whois" -> up.python_whois = "date"
      [] source = "whoisxml" -> up.whoisxml = "date"

\* The upstream sources during one lookup.  What a source would have done
\* that the lookup cannot reach makes no difference and is fixed: the sources
\* behind one that yields (or behind who-dat when it raises), the registrar
\* of whois.whois when who-dat or WhoisXML name one or no source yields.
Upstreams ==
    {up \in {Upstream(who_dat, rdap, python_whois, whoisxml, registrar) :
                who_dat \in {"date_registrar", "date", "none", "429",
                             "failed", "timeout", "raises"},
                rdap \in {"date", "none", "failed", "timeout"},
                python_whois \in {"date", "none"},
                whoisxml \in {"no_key", "date", "none"},
                registrar \in BOOLEAN} :
        /\ (Yields(up, "who-dat") \/ up.who_dat = "raises")
               => up.rdap = "none"
        /\ (Yields(up, "who-dat") \/ up.who_dat = "raises"
            \/ Yields(up, "rdap")) => up.python_whois = "none"
        /\ (Yields(up, "who-dat") \/ up.who_dat = "raises"
            \/ Yields(up, "rdap") \/ Yields(up, "python-whois"))
               => up.whoisxml = "no_key"
        /\ up.registrar =>
               (Yields(up, "who-dat") \/ Yields(up, "rdap")
                \/ Yields(up, "python-whois"))
        /\ up.registrar => up.who_dat # "date_registrar"}

GetDomainAge ==
    /\ whois_checker.calls < MaxLookups
    /\ \E arg \in WhoisArgs, up \in Upstreams :
        \E looked \in {get_domain_age(whois_checker.self, arg, up)} :
            whois_checker' = [self |-> looked.self, calls |-> whois_checker.calls + 1,
                      last |-> Lookup(arg, up, whois_checker.self, looked.result,
                                      looked.queries)]
    /\ UNCHANGED <<allowlist, cache, req, gate, call, inflight, session>>

InitWhois ==
    /\ allowlist = {}
    /\ cache = EmptyCache
    /\ req = NoRequest
    /\ gate = GateIdle
    /\ call = Idle
    /\ inflight = NoRace
    /\ session = NoSession
    /\ whois_checker = NoWhois

NextWhois == GetDomainAge

SpecWhois == InitWhois /\ [][NextWhois]_vars

---------------------------------------------------------------------------
(* SpecWhoisRace: two lookups at once on the shared WhoisChecker *)

\* app.py creates one checker, whois_checker = WhoisChecker(), and every
\* request thread calls get_domain_age on it.  A lookup in flight: its
\* argument, what the upstream sources do for it, its position in
\* get_domain_age, and its locals creation_date and result.  The positions:
\* "begin" before the cache lookup, "who_dat", "rdap", "python_whois" and
\* "whoisxml" before the call of that source, "store" before the result is
\* built and cached, "return" before the flags are read for the return
\* value, "done" after the return.
WhoisThreads == {1, 2}
ThreadArg(i) == IF i = 1 THEN "example.com" ELSE "other.org"
InFlight(arg, up, pc, creation_date, result) ==
    [arg |-> arg, up |-> up, pc |-> pc, creation_date |-> creation_date,
     result |-> result]

\* what the sources do during one of the two lookups: who-dat and RDAP vary,
\* python-whois holds no date and WHOISXML_API_KEY is not set
ConcurrentUpstreams ==
    {up \in Upstreams :
        /\ up.who_dat \in {"date_registrar", "date", "none", "429", "failed"}
        /\ up.rdap \in {"date", "none", "failed"}
        /\ up.python_whois = "none"
        /\ up.whoisxml = "no_key"}

\* the thread goes on from a source: to the store when the source yielded a
\* date, to the return when it raised, otherwise to the next source
AfterSource(t, tried, next) ==
    IF tried.raised THEN [t EXCEPT !.pc = "return"]
    ELSE IF tried.date # "" THEN [t EXCEPT !.pc = "store", !.creation_date = tried.date]
    ELSE [t EXCEPT !.pc = next]

\* lines 47-57: the cache lookup and, after a miss, the reset of the flags
BeginLookup(i) ==
    /\ whois_checker.t[i].pc = "begin"
    /\ LET t == whois_checker.t[i]
           hit == cache_lookup(whois_checker.self, normalize_domain(t.arg))
       IN  whois_checker' =
               IF hit # NoAge
               THEN [whois_checker EXCEPT !.t[i].pc = "done", !.t[i].result = hit]
               ELSE [whois_checker EXCEPT !.t[i].pc = "who_dat",
                                          !.self = reset_flags(whois_checker.self)]
    /\ UNCHANGED <<allowlist, cache, req, gate, call, inflight, session>>

\* line 63: creation_date = self._try_who_dat(domain)
StepWhoDat(i) ==
    /\ whois_checker.t[i].pc = "who_dat"
    /\ LET t == whois_checker.t[i]
           tried == try_who_dat(whois_checker.self, normalize_domain(t.arg), t.up)
       IN  whois_checker' = [whois_checker EXCEPT !.self = tried.self,
                                !.t[i] = AfterSource(t, tried, "rdap")]
    /\ UNCHANGED <<allowlist, cache, req, gate, call, inflight, session>>

\* lines 64-65: creation_date = self._try_rdap(domain)
StepRdap(i) ==
    /\ whois_checker.t[i].pc = "rdap"
    /\ LET t == whois_checker.t[i]
           tried == try_rdap(whois_checker.self, normalize_domain(t.arg), t.up)
       IN  whois_checker' = [whois_checker EXCEPT !.self = tried.self,
                                !.t[i] = AfterSource(t, tried, "python_whois")]
    /\ UNCHANGED <<allowlist, cache, req, gate, call, inflight, session>>

\* lines 68-69: creation_date = self._try_python_whois(domain)
StepPythonWhois(i) ==
    /\ whois_checker.t[i].pc = "python_whois"
    /\ LET t == whois_checker.t[i]
           tried == try_python_whois(whois_checker.self, normalize_domain(t.arg), t.up)
       IN  whois_checker' = [whois_checker EXCEPT !.self = tried.self,
                                !.t[i] = AfterSource(t, tried, "whoisxml")]
    /\ UNCHANGED <<allowlist, cache, req, gate, call, inflight, session>>

\* lines 72-73: creation_date = self._try_whoisxml(domain); with no date
\* the thread goes on to the return
StepWhoisxml(i) ==
    /\ whois_checker.t[i].pc = "whoisxml"
    /\ LET t == whois_checker.t[i]
           tried == try_whoisxml(whois_checker.self, normalize_domain(t.arg), t.up)
       IN  whois_checker' = [whois_checker EXCEPT !.self = tried.self,
                                !.t[i] = AfterSource(t, tried, "return")]
    /\ UNCHANGED <<allowlist, cache, req, gate, call, inflight, session>>

\* lines 75-91: the result is built with the registrar self._last_registrar
\* holds now, or with the one _get_registrar finds, and put into the cache
StoreResult(i) ==
    /\ whois_checker.t[i].pc = "store"
    /\ LET t == whois_checker.t[i]
           domain == normalize_domain(t.arg)
           registrar ==
               IF whois_checker.self.last_registrar # <<>>
               THEN whois_checker.self.last_registrar
               ELSE get_registrar(domain, t.up)
           result == AgeFound(t.creation_date, registrar)
       IN  whois_checker' = [whois_checker EXCEPT !.self.cache[domain] = result,
                                !.t[i].result = result, !.t[i].pc = "return"]
    /\ UNCHANGED <<allowlist, cache, req, gate, call, inflight, session>>

\* lines 98-112: the return value, from the flags as they are now
ReturnResult(i) ==
    /\ whois_checker.t[i].pc = "return"
    /\ whois_checker' =
           [whois_checker EXCEPT !.t[i].pc = "done",
               !.t[i].result = returned(whois_checker.self, whois_checker.t[i].result)]
    /\ UNCHANGED <<allowlist, cache, req, gate, call, inflight, session>>

\* a new checker and two requests about to look up different domains
InitWhoisRace ==
    /\ allowlist = {}
    /\ cache = EmptyCache
    /\ req = NoRequest
    /\ gate = GateIdle
    /\ call = Idle
    /\ inflight = NoRace
    /\ session = NoSession
    /\ whois_checker \in
           {[self |-> NewChecker,
             t |-> [i \in WhoisThreads |->
                       InFlight(ThreadArg(i), ups[i], "begin", "", NoAge)]] :
               ups \in [WhoisThreads -> ConcurrentUpstreams]}

NextWhoisRace ==
    \E i \in WhoisThreads :
        \/ BeginLookup(i)
        \/ StepWhoDat(i)
        \/ StepRdap(i)
        \/ StepPythonWhois(i)
        \/ StepWhoisxml(i)
        \/ StoreResult(i)
        \/ ReturnResult(i)

SpecWhoisRace == InitWhoisRace /\ [][NextWhoisRace]_vars

---------------------------------------------------------------------------
(* Claims about the scoring engine, checked under SpecScore *)

IsEngineCall == call.fn \in {"calculate_score", "calculate_composite_score"}

\* C5: the composite score returned by ScoreCalculator.calculate_score and by
\* calculate_composite_score (structured or legacy form) is always within
\* [0, 100], whatever the probe data and the weights.
C5_CompositeInRange ==
    (IsEngineCall /\ call.out.st = "ok") =>
        /\ call.out.composite_score >= 0
        /\ call.out.composite_score <= Num(100)

\* C6: in every result the engine computes, the trust level is the band of
\* the composite score alone: at least 80 is high, at least 60 and below 80
\* is medium, below 60 is low.  (The error result, which reports that no
\* composite was computed, carries trust_level "error".)
C6_TrustLevelFromComposite ==
    (IsEngineCall /\ call.out.st = "ok" /\ call.out.shape = "dict"
        /\ call.out.trust_level # "error") =>
        LET c == call.out.composite_score
            t == call.out.trust_level
        IN  /\ (c >= Num(80)) => (t = "high")
            /\ (c >= Num(60) /\ c < Num(80)) => (t = "medium")
            /\ (c < Num(60)) => (t = "low")

\* a structured result whose composite is exactly 80 and whose level is high
C6_Witness ==
    /\ call.fn = "calculate_composite_score"
    /\ call.out.shape = "dict"
    /\ call.out.composite_score = Num(80)
    /\ call.out.trust_level = "high"

CertReportedValid(c) ==
    ~Falsy(c) /\ Truthy(Get(c.f.is_valid, Get(c.f.valid, PyBool(FALSE))))

\* C8: calculate_ssl_score gives 0 if and only if the certificate is reported
\* invalid: a certificate reported valid scores above 0 whatever its cipher
\* strength and expiry fields, one reported invalid (or no data) scores 0.
C8_SslZeroIffInvalid ==
    (call.fn = "calculate_ssl_score") =>
        LET c == call.args[1]
        IN  /\ CertReportedValid(c) => (call.out.st = "ok" /\ call.out.v > 0)
            /\ ~CertReportedValid(c) => (call.out = Ret(0))

\* C9: for a valid certificate calculate_ssl_score gives 100, 70 when the
\* cipher strength is weak or medium, at most 50 when expiring_soon is set
\* and otherwise at most 70 when days_until_expiry < 30: the worst applicable
\* value.
C9_SslWorstCap ==
    (call.fn = "calculate_ssl_score" /\ CertReportedValid(call.args[1])) =>
        LET d == call.args[1].f
            weakOrMedium ==
                /\ d.cipher_strength.k = "str"
                /\ Lower(d.cipher_strength.s) \in {"weak", "medium"}
            expiring == Truthy(d.expiring_soon)
            fewDays == d.days_until_expiry.k = "num"
                       /\ d.days_until_expiry.n < Num(30)
            expected ==
                IF expiring THEN Num(50)
                ELSE IF weakOrMedium \/ fewDays THEN Num(70)
                ELSE Num(100)
        IN  call.out = Ret(expected)

\* C10: the cipher sub-score is the probe score times 100, less 10 points per
\* entry of weak_ciphers_found and at most 30, clamped to [0, 100]; the DNS
\* sub-score is the probe score times 100 clamped to [0, 100].
C10_CipherAndDnsScore ==
    LET clamp(x) == IF x < 0 THEN 0 ELSE IF x > Num(100) THEN Num(100) ELSE x
    IN  /\ (call.fn = "calculate_cipher_score"
              /\ call.args[1].f.cipher_score.k = "num"
              /\ call.args[1].f.weak_ciphers_found.k \in {"list", "absent"}) =>
            LET p == call.args[1].f.cipher_score.n
                n == Len(call.args[1].f.weak_ciphers_found.l)
                penalty == IF n >= 3 THEN Num(30) ELSE n * Num(10)
            IN  call.out = Ret(clamp(p * 100 - penalty))
        /\ (call.fn = "calculate_dns_score"
              /\ call.args[1].f.dns_score.k = "num") =>
            call.out = Ret(clamp(call.args[1].f.dns_score.n * 100))

\* four weak ciphers found: the penalty is 30, not 40
C10_Witness ==
    /\ call.fn = "calculate_cipher_score"
    /\ call.args[1].f.cipher_score = PyNum(Num(1))
    /\ Len(call.args[1].f.weak_ciphers_found.l) = 4
    /\ call.out = Ret(Num(70))

\* the data is not there at all: None, or a dictionary without a key
EntirelyAbsent(d) == d.none \/ \A key \in DOMAIN d.f : d.f[key] = Absent

\* the parameter default of cipher_score and dns_score, which an omitted
\* argument takes
OmittedProbe == PyNum(Dec(5, 10))

\* C11: when the cipher data or the DNS data is entirely absent (None or
\* empty, or calculate_composite_score is called without cipher_score or
\* dns_score), the corresponding sub-score of the result is exactly 50.
C11_MissingDataScoresFifty ==
    /\ (call.fn = "calculate_score" /\ call.out.st = "ok") =>
        /\ EntirelyAbsent(call.args[4]) => call.out.cipher_score = Num(50)
        /\ EntirelyAbsent(call.args[5]) => call.out.dns_score = Num(50)
    /\ (call.fn = "calculate_composite_score" /\ call.out.shape = "dict"
           /\ call.out.trust_level # "error") =>
        /\ call.args[5] = OmittedProbe => call.out.cipher_score = Num(50)
        /\ call.args[6] = OmittedProbe => call.out.dns_score = Num(50)

\* calculate_score with None for the cipher data and {} for the DNS data
C11_Witness ==
    /\ call.fn = "calculate_score"
    /\ call.args[4].none
    /\ ~call.args[5].none /\ EntirelyAbsent(call.args[5])
    /\ call.out.st = "ok"
    /\ call.out.cipher_score = Num(50)
    /\ call.out.dns_score = Num(50)

\* C12: scoring never propagates an exception to its caller: for every
\* input, probe results with missing or null fields included,
\* ScoreCalculator.calculate_score and calculate_composite_score return a
\* result, and an internal failure yields a structured result with
\* composite_score 0, trust_level "error" and a detail string.
C12_ScoringNeverRaises ==
    IsEngineCall =>
        /\ call.out.st = "ok"
        /\ call.out.exc # "" =>
            /\ call.out.shape = "dict"
            /\ call.out.composite_score = 0
            /\ call.out.trust_level = "error"

\* C13: calculate_composite_score called with two numeric (non-boolean)
\* first arguments d and s returns the bare number d*wd + s*ws, unrounded,
\* where wd and ws are the third and fourth arguments when they lie in (0, 1]
\* and 0.6 and 0.4 otherwise (d = 100, s = 0 gives exactly 60); called with
\* signal inputs (an age or None, a boolean validity) it returns a structured
\* result and never a bare number.
C13_LegacyForm ==
    (call.fn = "calculate_composite_score") =>
        LET d == call.args[1]
            s == call.args[2]
            inUnit(x) == x.k = "num" /\ 0 < x.n /\ x.n <= Num(1)
            wd == IF inUnit(call.args[3]) THEN call.args[3].n ELSE Dec(6, 10)
            ws == IF inUnit(call.args[4]) THEN call.args[4].n ELSE Dec(4, 10)
        IN  /\ (d.k = "num" /\ s.k = "num") =>
                /\ call.out.st = "ok"
                /\ call.out.shape = "num"
                /\ call.out.composite_score = (d.n * wd + s.n * ws) \div FP
            /\ (d = PyNum(Num(100)) /\ s = PyNum(0)
                   /\ ~inUnit(call.args[3]) /\ ~inUnit(call.args[4])) =>
                call.out.composite_score = Num(60)
            /\ (d.k \in {"num", "none"} /\ s.k = "bool") =>
                /\ call.out.st = "ok"
                /\ call.out.shape = "dict"

\* 73.7 and 88.3 under the weights 0.5 and 0.2: 54.51, not 54.5
C13_Witness ==
    /\ call.fn = "calculate_composite_score"
    /\ call.args[1] = PyNum(Dec(737, 10))
    /\ call.args[2] = PyNum(Dec(883, 10))
    /\ call.args[3] = PyNum(Dec(5, 10))
    /\ call.args[4] = PyNum(Dec(2, 10))
    /\ call.out.shape = "num"
    /\ call.out.composite_score = Dec(5451, 100)

\* the sentences of the recommendations by the signal they speak of: 1 the
\* overall assessment, 2 the domain, 3 the certificate, 4 the cipher, 5 DNS
OverallSentences ==
    {"This appears to be a trustworthy site",
     "Exercise normal caution when interacting",
     "Exercise caution when providing sensitive information"}
SentenceRank(sentence) ==
    IF sentence \in OverallSentences THEN 1
    ELSE IF sentence = "Domain is relatively new - verify legitimacy" THEN 2
    ELSE IF sentence \in
            {"SSL certificate is invalid - avoid entering sensitive data",
             "SSL certificate expiring soon"} THEN 3
    ELSE IF sentence \in
            {"Weak encryption detected - site may be vulnerable",
             "Site supports some weak cipher suites"} THEN 4
    ELSE 5
\* a DNS sentence that is neither the one about the DNS score nor the one
\* about SPF
IsDmarcSentence(sentence) ==
    /\ SentenceRank(sentence) = 5
    /\ sentence \notin
           {"DNS configuration incomplete - verify site authenticity",
            "No SPF record - email security may be compromised"}

\* C14: the recommendations of ScoreCalculator.calculate_score start with
\* exactly one overall-assessment sentence chosen by the composite band,
\* followed by the triggered sentences in the order domain, certificate,
\* cipher, DNS; each signal condition (new domain, invalid or expiring
\* certificate, weak cipher, missing SPF or DMARC) contributes its sentence
\* whenever it is triggered, and none is dropped.
C14_Recommendations ==
    (call.fn = "calculate_score" /\ call.out.st = "ok") =>
        LET recs == call.out.recommendations
            Has(sentence) == \E i \in DOMAIN recs : recs[i] = sentence
            composite == call.out.composite_score
            age == call.args[2].f.domain_age_years
            cert == call.args[3].f
            cipher == call.args[4]
            dns == call.args[5]
            certInvalid == ~Truthy(cert.is_valid) /\ ~Truthy(cert.valid)
        IN  /\ recs # <<>>
            /\ recs[1] = (IF composite >= Num(80)
                          THEN "This appears to be a trustworthy site"
                          ELSE IF composite >= Num(60)
                          THEN "Exercise normal caution when interacting"
                          ELSE "Exercise caution when providing sensitive information")
            /\ \A i \in 2..Len(recs) : recs[i] \notin OverallSentences
            /\ \A i, j \in DOMAIN recs :
                i < j => /\ SentenceRank(recs[i]) <= SentenceRank(recs[j])
                         /\ recs[i] # recs[j]
            /\ (age.k = "num" /\ 0 <= age.n /\ age.n < Num(1)) =>
                Has("Domain is relatively new - verify legitimacy")
            /\ certInvalid =>
                Has("SSL certificate is invalid - avoid entering sensitive data")
            /\ (~certInvalid /\ Truthy(cert.expiring_soon)) =>
                Has("SSL certificate expiring soon")
            /\ (~EntirelyAbsent(cipher)
                   /\ cipher.f.cipher_strength = PyStr("weak")) =>
                Has("Weak encryption detected - site may be vulnerable")
            /\ (~EntirelyAbsent(dns) /\ ~Truthy(dns.f.spf_record)) =>
                Has("No SPF record - email security may be compromised")
            /\ (~EntirelyAbsent(dns) /\ ~Truthy(dns.f.dmarc_record)) =>
                \E i \in DOMAIN recs : IsDmarcSentence(recs[i])

---------------------------------------------------------------------------
(* SpecGate: is_url_allowed applied to URLs, allowlists and DNS answers *)

GateUrls ==
    {UrlPublic, UrlWww, UrlUpperDot, UrlLoopback, UrlMetadata, UrlFtp,
     UrlNoHost, UrlBare, UrlMalformed, UrlEmpty}

\* DOMAIN_ALLOWLIST is set() in the source, with the invitation to add
\* domains; is_url_allowed normalises the entries it finds
AllowlistValues ==
    {{}, {ExampleCom}, {<<"Example", ".", "COM", ".">>}, {LoopbackHost},
     {ExampleCom, LoopbackHost}}

IsUrlAllowed ==
    /\ gate = GateIdle
    /\ \E url \in GateUrls, dns \in DnsOutcomes :
        gate' = [st |-> "done", url |-> url, dns |-> dns,
                 out |-> is_url_allowed(url, allowlist, dns)]
    /\ UNCHANGED <<allowlist, cache, req, call, inflight, session, whois_checker>>

\* the gate keeps no state between evaluations: a behaviour is one evaluation
InitGate ==
    /\ allowlist \in AllowlistValues
    /\ cache = EmptyCache
    /\ req = NoRequest
    /\ gate = GateIdle
    /\ call = Idle
    /\ inflight = NoRace
    /\ session = NoSession
    /\ whois_checker = NoWhois

NextGate ==
    \/ IsUrlAllowed

SpecGate == InitGate /\ [][NextGate]_vars

---------------------------------------------------------------------------
(* Spec: the request handlers and the cache *)

\* how the names of the world resolve while one request is handled
RequestDns ==
    {LookupFailed, Resolved(<<AddrPublic>>),
     Resolved(<<AddrPublic, AddrPrivate>>)}
RequestWhois == {WhoisNone, WhoisFound(Num(6))}
RequestCerts == {CertValid(Num(200)), CertInvalid}

\* the bodies of POST /check
CheckBodies == {CheckBody(u) : u \in RequestUrls} \cup {NullBody, NumberBody}

\* a list of twelve URLs: the eleventh occurs nowhere among the first ten
LongBatch ==
    <<UrlPublic, UrlLoopback, UrlSurrogate, UrlMalformed, UrlPublic,
      UrlLoopback, UrlPublic, UrlPublic, UrlLoopback, UrlPublic,
      UrlWww, UrlPublic>>

\* the bodies of POST /batch-check: null, a number, an object without the
\* key "urls", an object whose "urls" is null, and lists: every list of at
\* most MaxBatch URLs, lists with a URL whose processing raises, and a list
\* of more than ten
BatchUrls == {UrlPublic, UrlLoopback}
BatchBodies ==
    {NullBody, NumberBody, UrlsNullBody, BatchBody(FALSE, <<>>)} \cup
    {BatchBody(TRUE, s) :
        s \in UNION {[1..n -> BatchUrls] : n \in 0..MaxBatch}} \cup
    {BatchBody(TRUE, <<UrlSurrogate, UrlPublic>>),
     BatchBody(TRUE, <<UrlMalformed, UrlSurrogate>>),
     BatchBody(TRUE, LongBatch)}

Request(op, urls, out) ==
    [op |-> op, urls |-> urls, status |-> out.status,
     results |-> out.results, error |-> out.error, events |-> out.events]

PostCheck ==
    /\ \E data \in CheckBodies, d \in RequestDns, w \in RequestWhois,
          c \in RequestCerts :
        LET out == check_site(data, allowlist, cache, Env(d, w, c, "head_ok"))
        IN  /\ req' = Request("check",
                          IF data.json = "object" THEN <<data.url.text>>
                          ELSE <<>>, out)
            /\ cache' = out.store
    /\ UNCHANGED <<allowlist, gate, call, inflight, session, whois_checker>>

PostBatchCheck ==
    /\ \E data \in BatchBodies, d \in RequestDns, w \in RequestWhois,
          c \in RequestCerts :
        LET out == batch_check_sites(data, allowlist, cache,
                                     Env(d, w, c, "head_ok"))
        IN  /\ req' = Request("batch",
                          [i \in 1..Len(data.urls) |-> data.urls[i].text], out)
            /\ cache' = out.store
    /\ UNCHANGED <<allowlist, gate, call, inflight, session, whois_checker>>

RunProcessSiteCheck ==
    /\ \E url \in RequestUrls :
        LET out == process_site_check(url, cache)
        IN  /\ req' = Request("task", <<url.text>>, out)
            /\ cache' = out.store
    /\ UNCHANGED <<allowlist, gate, call, inflight, session, whois_checker>>

CallSafeRequestsHead ==
    /\ \E url \in RequestUrls, d \in RequestDns, h \in HttpOutcomes :
        LET out == safe_requests_head(url, allowlist, cache,
                       Env(d, WhoisNone, CertInvalid, h))
        IN  /\ req' = Request("head", <<url.text>>, out)
            /\ cache' = out.store
    /\ UNCHANGED <<allowlist, gate, call, inflight, session, whois_checker>>

\* DOMAIN_ALLOWLIST = set(): the service runs with the empty allowlist, and
\* with Redis or with the in-memory cache
Init ==
    /\ allowlist = {}
    /\ cache \in {EmptyCache, EmptyRedis}
    /\ req = NoRequest
    /\ gate = GateIdle
    /\ call = Idle
    /\ inflight = NoRace
    /\ session = NoSession
    /\ whois_checker = NoWhois

Next ==
    \/ PostCheck
    \/ PostBatchCheck
    \/ RunProcessSiteCheck
    \/ CallSafeRequestsHead

Spec == Init /\ [][Next]_vars

---------------------------------------------------------------------------
(* SpecCache: checks of one URL while time passes *)

\* what the checks of https://example.com meet: the name resolves to a public
\* address, the registry lookup and the certificate check vary
TimedEnvs ==
    {Env(Resolved(<<AddrPublic>>), w, c, "head_ok") :
        w \in RequestWhois, c \in RequestCerts}

CheckExample ==
    /\ \E env \in TimedEnvs :
        LET out == check_site(CheckBody(UrlPublic), allowlist, cache, env)
        IN  /\ req' = Request("check", <<UrlPublic.text>>, out)
            /\ cache' = out.store
    /\ UNCHANGED <<allowlist, gate, call, inflight, session, whois_checker>>

BatchCheckExample ==
    /\ \E env \in TimedEnvs :
        LET out == batch_check_sites(BatchBody(TRUE, <<UrlPublic>>),
                                     allowlist, cache, env)
        IN  /\ req' = Request("batch", <<UrlPublic.text>>, out)
            /\ cache' = out.store
    /\ UNCHANGED <<allowlist, gate, call, inflight, session, whois_checker>>

\* a day passes with no request at hand: every entry is a day older
Elapse ==
    /\ \E k \in CacheKeys :
        /\ cache.slots[k].value # NoEntry
        /\ cache.slots[k].age < MaxDays * Day
    /\ cache' = [cache EXCEPT !.slots =
                    [k \in CacheKeys |->
                        IF cache.slots[k].value = NoEntry THEN EmptySlot
                        ELSE Slot(cache.slots[k].value, cache.slots[k].ttl,
                                  Min2(cache.slots[k].age + Day,
                                       MaxDays * Day))]]
    /\ req' = NoRequest
    /\ UNCHANGED <<allowlist, gate, call, inflight, session, whois_checker>>

InitCache ==
    /\ allowlist = {}
    /\ cache \in {EmptyCache, EmptyRedis}
    /\ req = NoRequest
    /\ gate = GateIdle
    /\ call = Idle
    /\ inflight = NoRace
    /\ session = NoSession
    /\ whois_checker = NoWhois

NextCache ==
    \/ CheckExample
    \/ BatchCheckExample
    \/ Elapse

SpecCache == InitCache /\ [][NextCache]_vars

---------------------------------------------------------------------------
(* SpecRace: two concurrent checks of one URL *)

\* Request i arrives at POST /check or at POST /batch-check (with a list of
\* the one URL) and runs up to its cache lookup: a hit is answered at once,
\* after a miss the request goes on to the probes.  POST /batch-check asks
\* the gate before the lookup.
RaceLookup ==
    /\ \E i \in RaceProcs, op \in {"check", "batch"} :
        /\ inflight.p[i].pc = "idle"
        /\ LET res == is_url_allowed(UrlPublic, allowlist, inflight.env.dns)
               cached == get_from_cache(cache, get_cache_key(UrlPublic))
               blocked == Result("blocked", UrlPublic.text, <<>>, Absent,
                                 Absent, Absent, 0, "blocked",
                                 "URL not allowed", res.reason, res.detail,
                                 FALSE)
           IN  inflight' = [inflight EXCEPT !.p[i] =
                   IF op = "batch" /\ ~res.allowed
                   THEN [pc |-> "done", op |-> op, wrote |-> NoEntry,
                         response |-> blocked]
                   ELSE IF cached # NoEntry
                   THEN [pc |-> "done", op |-> op, wrote |-> NoEntry,
                         response |-> cached]
                   ELSE [pc |-> "computing", op |-> op, wrote |-> NoEntry,
                         response |-> NoEntry]]
    /\ UNCHANGED <<allowlist, cache, req, gate, call, session, whois_checker>>

\* Request i, past its miss, runs the probes, writes its result into the
\* cache as it is now and answers.
RaceCompute ==
    /\ \E i \in RaceProcs :
        /\ inflight.p[i].pc = "computing"
        /\ LET env == inflight.env
               domain_info == safe_get_domain_age(env.whois)
               ssl == safe_check_ssl(UrlPublic, allowlist, env)
               out == IF inflight.p[i].op = "check"
                      THEN check_site_scored(UrlPublic, cache, domain_info,
                                             ssl)
                      ELSE batch_item_scored(UrlPublic,
                               Outcome(200, <<>>, "", <<>>, cache),
                               domain_info, ssl)
           IN  /\ cache' = out.store
               /\ inflight' = [inflight EXCEPT
                      !.p[i] = [pc |-> "done", op |-> @.op,
                                wrote |-> out.results[1],
                                response |-> out.results[1]],
                      !.writes = Append(@, i)]
    /\ UNCHANGED <<allowlist, req, gate, call, session, whois_checker>>

\* a later reader: POST /check of the URL once both requests have answered
RaceRead ==
    /\ \A i \in RaceProcs : inflight.p[i].pc = "done"
    /\ req = NoRequest
    /\ LET out == check_site(CheckBody(UrlPublic), allowlist, cache,
                             inflight.env)
       IN  /\ req' = Request("check", <<UrlPublic.text>>, out)
           /\ cache' = out.store
    /\ UNCHANGED <<allowlist, gate, call, inflight, session, whois_checker>>

\* the world stays as it is while the requests race
InitRace ==
    /\ allowlist = {}
    /\ cache \in {EmptyCache, EmptyRedis}
    /\ req = NoRequest
    /\ gate = GateIdle
    /\ call = Idle
    /\ inflight \in {Race(env) : env \in TimedEnvs}
    /\ session = NoSession
    /\ whois_checker = NoWhois

NextRace ==
    \/ RaceLookup
    \/ RaceCompute
    \/ RaceRead

SpecRace == InitRace /\ [][NextRace]_vars

\* the weighted sum of the sub-scores a calculate_score result reports, under
\* the weights of the calculator that computed it, before any rounding
ReportedWeightedSum ==
    LET w == call.args[1]
        o == call.out
    IN  Mul(o.domain_score, w.domain) + Mul(o.ssl_score, w.ssl)
        + Mul(o.cipher_score, w.cipher) + Mul(o.dns_score, w.dns)

\* C26: in every structured result of calculate_score and of
\* calculate_composite_score the trust level agrees with the composite score
\* reported in the same result: high iff the reported composite is at least
\* 80, medium iff it is at least 60 and below 80, low iff it is below 60,
\* also when the one-decimal rounding moved the composite across a
\* threshold; trust_level "error" comes only with composite_score 0.
C26_TrustLevelAgreesWithReported ==
    (call.fn \in {"calculate_score", "calculate_composite_score"}
        /\ call.out.st = "ok" /\ call.out.shape = "dict") =>
        LET c == call.out.composite_score
            t == call.out.trust_level
        IN  /\ t \in {"high", "medium", "low", "error"}
            /\ (t = "error") => (c = 0)
            /\ (t # "error") =>
                /\ (t = "high") <=> (c >= Num(80))
                /\ (t = "medium") <=> (c >= Num(60) /\ c < Num(80))
                /\ (t = "low") <=> (c < Num(60))

\* a result of calculate_score whose weighted sum lies below 80, whose
\* reported composite is the rounded 80.0 and whose level is high
C26_Witness ==
    /\ call.fn = "calculate_score"
    /\ call.out.st = "ok" /\ call.out.shape = "dict"
    /\ ReportedWeightedSum < Num(80)
    /\ call.out.composite_score = Num(80)
    /\ call.out.trust_level = "high"

\* the sentence _generate_recommendations adds for an invalid certificate
InvalidCertificateSentence ==
    "SSL certificate is invalid - avoid entering sensitive data"

\* C27: within one result of ScoreCalculator.calculate_score the certificate
\* verdict is consistent: the recommendation "SSL certificate is invalid" is
\* present if and only if ssl_score is 0, whatever the is_valid and valid
\* keys of the certificate data are.
C27_CertificateVerdictConsistent ==
    (call.fn = "calculate_score" /\ call.out.st = "ok"
        /\ call.out.shape = "dict") =>
        LET recs == call.out.recommendations
        IN  (\E i \in 1..Len(recs) : recs[i] = InvalidCertificateSentence)
                <=> (call.out.ssl_score = 0)

---------------------------------------------------------------------------
(* Claims about the probes, checked under SpecProbe *)

\* C21: the cipher and DNS probes never raise past their boundary:
\* check_ciphers and check_dns_records always return a result mapping, and
\* whenever the returned error field is set the probe's score (cipher_score,
\* dns_score) is the zero default 0.0.
C21_ProbesNeverRaise ==
    call.fn \in {"check_dns_records", "check_ciphers"} =>
        /\ call.out.st = "ok"
        /\ call.out.error # PyNone => call.out.score = 0

\* C22: the normalized scores the probes hand to the engine are always
\* within [0, 1]: for every combination of records _calculate_dns_score
\* returns a score in [0, 1] (a complete configuration scores at least 0.9
\* and is rated high), and for every cipher list and protocol
\* _calculate_cipher_score returns a score in [0, 1].
C22_ProbeScoresNormalized ==
    /\ call.fn \in {"check_dns_records", "check_ciphers"} =>
        (call.out.score >= 0 /\ call.out.score <= Num(1))
    /\ call.fn \in {"_calculate_dns_score", "_calculate_cipher_score"} =>
        (call.out.score >= 0 /\ call.out.score <= Num(1))
    /\ (/\ call.fn = "_calculate_dns_score"
        /\ call.args[1].a_records > 0
        /\ call.args[1].aaaa_records > 0
        /\ call.args[1].mx_records > 0
        /\ call.args[1].ns_records >= 2
        /\ call.args[1].spf_record
        /\ call.args[1].dmarc_record
        /\ call.args[1].dkim_configured) =>
            (call.out.score >= Dec(9, 10) /\ call.out.reliability = "high")

---------------------------------------------------------------------------
(* Claims about the WHOIS lookups, checked under SpecWhois *)

\* the place of a source in the order who-dat, RDAP, python-whois, WhoisXML
SourceRank(source) ==
    CASE source = "who-dat" -> 1
      [] source = "rdap" -> 2
      [] source = "python-whois" -> 3
      [] source = "whoisxml" -> 4

SourcesBefore(source) ==
    {s \in {"who-dat", "rdap", "python-whois", "whoisxml"} :
        SourceRank(s) < SourceRank(source)}

\* C23: get_domain_age tries its sources in the fixed order who-dat, RDAP,
\* python-whois, WhoisXML and stops at the first one that yields a creation
\* date: a later source is queried only if every earlier source yielded
\* none, and no source is queried after one succeeded.
C23_SourcesInOrder ==
    LET queries == whois_checker.last.queries
    IN  /\ \A i, j \in DOMAIN queries :
            i < j => SourceRank(queries[i]) < SourceRank(queries[j])
        /\ \A j \in DOMAIN queries :
            \A s \in SourcesBefore(queries[j]) :
                ~Yields(whois_checker.last.up, s)
        /\ \A i, j \in DOMAIN queries :
            i < j => ~Yields(whois_checker.last.up, queries[i])

\* the lookup found the result of an earlier lookup of its domain
CachedBefore ==
    /\ whois_checker.calls > 0
    /\ whois_checker.last.before.cache[
           normalize_domain(whois_checker.last.arg)] # NoAge

\* C24: after get_domain_age has succeeded for a domain, every later call on
\* the same checker whose argument normalizes to the same domain returns an
\* equal result without making any upstream request; a lookup that yielded
\* no creation date stores nothing, so that the next call for that domain
\* queries the sources again.
C24_CachedLookups ==
    LET last == whois_checker.last
        domain == normalize_domain(last.arg)
    IN  whois_checker.calls > 0 =>
            /\ last.before.cache[domain] # NoAge =>
                /\ last.result = last.before.cache[domain]
                /\ last.queries = <<>>
            /\ last.result.kind = "found" =>
                whois_checker.self.cache[domain] = last.result
            /\ last.result.kind # "found" =>
                whois_checker.self.cache = last.before.cache
            /\ last.before.cache[domain] = NoAge => last.queries # <<>>

\* a second lookup, by another argument that normalizes to the domain of a
\* successful first one, answered from the cache
C24_Witness ==
    /\ CachedBefore
    /\ whois_checker.calls = 2
    /\ whois_checker.last.arg = "https://www.example.com/path"
    /\ whois_checker.last.result.kind = "found"
    /\ whois_checker.last.queries = <<>>

\* no source yielded a creation date in the last lookup, which reached the
\* foot of get_domain_age
NothingYielded ==
    /\ whois_checker.calls > 0
    /\ ~CachedBefore
    /\ \A s \in {"who-dat", "rdap", "python-whois", "whoisxml"} :
        ~Yields(whois_checker.last.up, s)

\* C25: the failure outcome of get_domain_age depends only on what happened
\* during that call: when no source yields a date it returns None if who-dat
\* answered 429 or if both who-dat and RDAP timed out in this call, and the
\* {domain_age_years: 0, error: whois_unavailable} mapping if both failed in
\* this call without timing out, whatever earlier calls on the same checker
\* experienced.
C25_FailureOutcomePerCall ==
    LET up == whois_checker.last.up
    IN  NothingYielded =>
            /\ (up.who_dat = "429"
                \/ (up.who_dat = "timeout" /\ up.rdap = "timeout"))
                   => whois_checker.last.result = NoAge
            /\ (up.who_dat = "failed" /\ up.rdap = "failed")
                   => whois_checker.last.result = WhoisUnavailable

---------------------------------------------------------------------------
(* Claims about concurrent lookups, checked under SpecWhoisRace *)

\* both lookups have returned
BothReturned == \A i \in WhoisThreads : whois_checker.t[i].pc = "done"

\* the lookup of thread i made alone, on a new checker
Sequential(i) ==
    get_domain_age(NewChecker, whois_checker.t[i].arg, whois_checker.t[i].up)

\* C30: when two requests run get_domain_age at once on the shared checker
\* for different domains, each result is the one a sequential lookup of its
\* own domain gives: the registrar and the None/error outcome of one lookup
\* are never taken from the registrar or the failure flags the other lookup
\* set, and the result cached under a domain belongs to that domain.
C30_ConcurrentLookupsIndependent ==
    BothReturned =>
        \A i \in WhoisThreads :
            /\ whois_checker.t[i].result = Sequential(i).result
            /\ whois_checker.self.cache[normalize_domain(whois_checker.t[i].arg)]
                   = Sequential(i).self.cache[normalize_domain(whois_checker.t[i].arg)]

---------------------------------------------------------------------------
(* Claims about sequences of calls, checked under SpecSession *)

---------------------------------------------------------------------------
(* Claims about pairs of calls, checked under SpecPair *)

\* the bands of the trust level in their order; the error result is below
\* every band
BandRank(trust_level) ==
    CASE trust_level = "high" -> 3
      [] trust_level = "medium" -> 2
      [] trust_level = "low" -> 1
      [] OTHER -> 0

\* the signal in which the second call of the pair was raised
RaisedSignal ==
    CHOOSE k \in Signals(session.log[1].fn) :
        session.log[2].args[k] # session.log[1].args[k]

\* both calls of the pair were made and returned, the weights are not
\* negative, and, where the raised signal is the age, the age was not
\* negative
ImprovedPair ==
    /\ Len(session.log) = 2
    /\ session.log[1].out.st = "ok"
    /\ session.self.domain >= 0
    /\ session.self.ssl >= 0
    /\ session.self.cipher >= 0
    /\ session.self.dns >= 0
    /\ (/\ session.log[1].fn # "calculate_weighted_composite_score"
        /\ RaisedSignal = 1) => session.log[1].args[1].n >= 0

\* C20: improving one signal while the others stay fixed never lowers the
\* result: with non-negative weights the composite is non-decreasing in each
\* sub-score, the domain-age sub-score is non-decreasing in age (for ages
\* >= 0), and the trust level never moves to a lower band when the domain
\* age or a probe score increases.
C20_Monotone ==
    ImprovedPair =>
        /\ session.log[2].out.st = "ok"
        /\ session.log[2].out.composite_score
               >= session.log[1].out.composite_score
        /\ BandRank(session.log[2].out.trust_level)
               >= BandRank(session.log[1].out.trust_level)

\* a pair of calls of calculate_score in which the raised age lifts the trust
\* level into a higher band
C20_Witness ==
    /\ ImprovedPair
    /\ session.log[1].fn = "calculate_score"
    /\ RaisedSignal = 1
    /\ BandRank(session.log[2].out.trust_level)
           > BandRank(session.log[1].out.trust_level)

---------------------------------------------------------------------------
(* Claims about the request handlers, checked under Spec *)

DialEvents == {"check_ssl_certificate", "requests.head", "requests.get"}
ProbeEvents == {"get_domain_age", "check_ssl_certificate"}

\* C1: on every request path (POST /check, POST /batch-check, the task
\* process_site_check, safe_requests_head) an outbound TLS or HTTP connection
\* to the host is started only after is_url_allowed was evaluated for that URL
\* earlier in the same request and allowed it.
C1_GateBeforeDial ==
    \A i \in DOMAIN req.events :
        req.events[i].ev \in DialEvents =>
            \E j \in 1..(i - 1) :
                /\ req.events[j].ev = "is_url_allowed"
                /\ req.events[j].url = req.events[i].url
                /\ req.events[j].allowed

\* a POST /check that went on to the certificate check of its URL
C1_Witness ==
    /\ req.op = "check"
    /\ \E i \in DOMAIN req.events : req.events[i].ev = "check_ssl_certificate"

\* C4: whenever the gate rejects a URL, POST /check and POST /batch-check
\* return for that URL a blocked result that carries the gate's reason, and
\* no probe (domain-age lookup, certificate check) is invoked for that URL.
C4_RejectedUrlIsBlocked ==
    req.op \in {"check", "batch"} =>
        \A i \in DOMAIN req.events :
            (req.events[i].ev = "is_url_allowed" /\ ~req.events[i].allowed) =>
                /\ \E k \in DOMAIN req.results :
                    /\ req.results[k].url = req.events[i].url
                    /\ req.results[k].trust_level = "blocked"
                    /\ req.results[k].reason = req.events[i].reason
                    /\ req.results[k].detail = req.events[i].detail
                /\ \A j \in DOMAIN req.events :
                    req.events[j].url = req.events[i].url =>
                        req.events[j].ev \notin ProbeEvents

\* the evaluations of the gate that a request made for the URL text
GateEvents(text) ==
    {i \in DOMAIN req.events :
        req.events[i].ev = "is_url_allowed" /\ req.events[i].url = text}

\* handling the URL raises an exception: its text cannot be encoded
ProcessingRaises(text) ==
    \E u \in RequestUrls : u.text = text /\ ~utf8_encodes(u)

\* C15: POST /batch-check processes only the first 10 URLs of the list and
\* returns exactly one result per processed URL, in input order; a URL that
\* the gate blocks or whose processing raises gets a blocked or an error entry
\* for that URL only, and every later URL of the batch is still processed.
C15_BatchCapAndIsolation ==
    (req.op = "batch" /\ req.status = 200) =>
        LET n == IF Len(req.urls) <= 10 THEN Len(req.urls) ELSE 10
        IN  /\ Len(req.results) = n
            /\ \A i \in 1..n :
                LET rejected == \E k \in GateEvents(req.urls[i]) :
                                    ~req.events[k].allowed
                    raises == ProcessingRaises(req.urls[i])
                    entry == req.results[i]
                IN  /\ entry.url = req.urls[i]
                    /\ GateEvents(req.urls[i]) # {}
                    /\ (entry.trust_level = "blocked") <=> rejected
                    /\ (entry.trust_level = "error") <=> (~rejected /\ raises)
                    /\ (~rejected /\ ~raises) => entry.kind = "scored"
            /\ \A j \in (n + 1)..Len(req.urls) :
                (\A i \in 1..n : req.urls[i] # req.urls[j]) =>
                    GateEvents(req.urls[j]) = {}

\* a list of twelve URLs: ten results, the second blocked, the third an
\* error entry and the fifth scored
C15_Witness ==
    /\ req.op = "batch"
    /\ Len(req.urls) = 12
    /\ Len(req.results) = 10
    /\ req.results[2].trust_level = "blocked"
    /\ req.results[3].trust_level = "error"
    /\ req.results[5].kind = "scored"
    /\ req.results[10].url = req.urls[10]

\* C16: every POST /check and POST /batch-check request gets a JSON
\* response: a body without a url yields 400 with no probe work, and an
\* exception raised anywhere while the request is handled (a body that is
\* JSON null or not an object included) is caught and answered with a 500
\* JSON error; no exception leaves the handler.
C16_AlwaysJsonResponse ==
    req.op \in {"check", "batch"} =>
        /\ req.status \in {200, 400, 500}
        /\ (req.op = "check" /\ req.urls = <<"">>) => req.status = 400
        /\ req.status = 400 => (req.events = <<>> /\ req.results = <<>>)
        /\ req.status = 500 => (req.error # "" /\ req.results = <<>>)

\* the gate rejects the URL however its name resolves
AlwaysRejected(u) ==
    \A d \in RequestDns : ~is_url_allowed(u, allowlist, d).allowed

\* C29: no result for a URL that the safety gate rejects is ever written to
\* the cache or served from it: after any sequence of /check and
\* /batch-check requests the cache holds entries only for URLs that passed
\* the gate when they were checked, and the error entries of a batch are
\* never cached.
C29_NoRejectedUrlCached ==
    /\ \A u \in RequestUrls :
        (utf8_encodes(u) /\ AlwaysRejected(u)) =>
            cache.slots[get_cache_key(u)].value = NoEntry
    /\ \A k \in CacheKeys :
        cache.slots[k].value.kind \in {"none", "scored"}

---------------------------------------------------------------------------
(* Claims about the cache, checked under SpecCache *)

\* the request was answered from the cache: a result without a lookup of the
\* domain's age
ServedFromCache ==
    /\ req.op \in {"check", "batch"}
    /\ req.status = 200
    /\ req.results # <<>>
    /\ \A i \in DOMAIN req.events : req.events[i].ev # "get_domain_age"

\* C17: every cache entry carries a TTL: an entry written by POST /check
\* stops being served 7 days after it was written and one written by POST
\* /batch-check after 1 day, in both cache modes (Redis and the in-memory
\* fallback); after expiry a request for the URL recomputes the result
\* instead of returning the stored one.
C17_EntriesExpire ==
    ServedFromCache =>
        LET entry == req.results[1]
            age == cache.slots[req.urls[1]].age
        IN  /\ entry.full => age < 7 * Day
            /\ ~entry.full => age < Day

\* C28: a POST /check response served from the cache has the fields of a
\* freshly computed POST /check response for that URL (url, domain,
\* ssl_issuer, ssl_expiry, score_details, checked_at and the rest), after
\* any sequence of earlier /check and /batch-check requests for the URL,
\* although both endpoints read and write the same cache key.
C28_CachedCheckHasCheckFields ==
    (ServedFromCache /\ req.op = "check") => req.results[1].full

---------------------------------------------------------------------------
(* Claims about concurrent requests, checked under SpecRace *)

\* both requests missed the cache, computed and wrote
BothWrote ==
    \A i \in RaceProcs :
        inflight.p[i].pc = "done" /\ inflight.p[i].wrote # NoEntry

\* C18: concurrent checks of the same URL that both miss the cache each
\* compute and write their result; both writes succeed, the cache finally
\* holds the entry of the last writer, and that entry is equivalent to what
\* the other request wrote, so that a later reader gets the same response
\* whichever request won the race.
C18_RaceWritesEquivalent ==
    BothWrote =>
        /\ Len(inflight.writes) = 2
        /\ get_from_cache(cache, get_cache_key(UrlPublic))
               = inflight.p[inflight.writes[2]].wrote
        /\ inflight.p[1].wrote = inflight.p[2].wrote
        /\ (req.op = "check" /\ req.status = 200) =>
            \A i \in RaceProcs : req.results[1] = inflight.p[i].wrote

---------------------------------------------------------------------------
(* Claims about the gate, checked under SpecGate *)

\* the addresses the hostname of the evaluated URL resolved to
GateAddrs == resolve_hostname(gate.url.hostname, gate.dns)

IsPublic(a) ==
    /\ a.parses
    /\ ~a.is_private
    /\ ~a.is_loopback
    /\ ~a.is_link_local
    /\ ~a.is_reserved
    /\ ~a.is_multicast
    /\ ~a.is_unspecified

Normalized(host) == rstrip_dot(host_lower(host))

\* the URL passes the checks that come before the resolution, the allowlist
\* step being passed when listed holds
ReachesResolution(url, listed) ==
    /\ url.parses
    /\ url.scheme \in {"http", "https"}
    /\ url.hostname # <<>>
    /\ listed

\* C2: is_url_allowed allows a URL only if every address its hostname
\* resolved to is public; one address that is private, loopback, link-local,
\* reserved, multicast, unspecified or unparsable, at any place among the
\* resolved addresses, rejects the URL with resolved_to_private_ip.
C2_OnlyPublicAddressesAllowed ==
    gate.st = "done" =>
        /\ gate.out.allowed =>
            /\ GateAddrs # <<>>
            /\ \A i \in DOMAIN GateAddrs : IsPublic(GateAddrs[i])
        /\ ( /\ ReachesResolution(gate.url,
                    allowlist = {} \/ Normalized(gate.url.hostname)
                                        \in {Normalized(d) : d \in allowlist})
             /\ \E i \in DOMAIN GateAddrs : ~IsPublic(GateAddrs[i]) ) =>
            /\ ~gate.out.allowed
            /\ gate.out.reason = "resolved_to_private_ip"
            /\ \E i \in DOMAIN GateAddrs :
                ~IsPublic(GateAddrs[i]) /\ gate.out.detail = GateAddrs[i].text

\* a public address followed by a private one
C2_Witness ==
    /\ gate.st = "done"
    /\ Len(GateAddrs) = 2
    /\ IsPublic(GateAddrs[1])
    /\ ~IsPublic(GateAddrs[2])
    /\ gate.out.reason = "resolved_to_private_ip"
    /\ gate.out.detail = GateAddrs[2].text

\* the reason of the first check that fails, the allowlist step being passed
\* when listed holds
FirstFailure(url, listed, addrs) ==
    IF ~url.parses THEN "invalid_url"
    ELSE IF url.scheme \notin {"http", "https"} THEN "bad_scheme"
    ELSE IF url.hostname = <<>> THEN "no_host"
    ELSE IF ~listed THEN "not_in_allowlist"
    ELSE IF addrs = <<>> THEN "dns_resolution_failed"
    ELSE IF \E i \in DOMAIN addrs : ~IsPublic(addrs[i])
    THEN "resolved_to_private_ip"
    ELSE "ok"

\* the evaluation reports the first failing check of the fixed order, resolves
\* the hostname only past the four checks before the resolution, and rejects
\* the three URLs the specification names as it says
OrderedChecks(listed) ==
    gate.st = "done" =>
        /\ gate.out.reason = FirstFailure(gate.url, listed, GateAddrs)
        /\ gate.out.allowed <=> (gate.out.reason = "ok")
        /\ gate.out.resolved <=> ReachesResolution(gate.url, listed)
        /\ gate.out.reason = "bad_scheme" => gate.out.detail = gate.url.scheme
        /\ (allowlist = {} /\ gate.url \in {UrlMetadata, UrlLoopback}) =>
            gate.out.reason = "resolved_to_private_ip"
        /\ gate.url = UrlFtp =>
            (gate.out.reason = "bad_scheme" /\ gate.out.detail = "ftp")

\* C3 as stated: the checks run in the fixed order invalid_url, bad_scheme,
\* no_host, not_in_allowlist, dns_resolution_failed, resolved_to_private_ip,
\* ok, where not_in_allowlist is given when the allowlist is not empty and
\* does not contain the lower-cased, trailing-dot-stripped hostname.
C3_CheckOrder ==
    OrderedChecks(allowlist = {}
                  \/ Normalized(gate.url.hostname) \in allowlist)

\* C3 amended: the same order, where not_in_allowlist is given when the
\* allowlist is not empty and no entry of it, lower-cased and stripped of
\* trailing dots like the hostname, equals the normalised hostname.
C3_CheckOrderNormalizedEntries ==
    OrderedChecks(allowlist = {}
                  \/ Normalized(gate.url.hostname)
                         \in {Normalized(d) : d \in allowlist})

\* an allowlist entry that is not in normal form admits the host it names
C3_Witness ==
    /\ gate.st = "done"
    /\ allowlist = {<<"Example", ".", "COM", ".">>}
    /\ gate.url = UrlUpperDot
    /\ gate.out.allowed

====
